---------------------------- MODULE Spec2Model ----------------------------
(***************************************************************************)
(* A model of the per-sample DSP engine of the AudioPluginHost effects     *)
(* (Source/Plugins/Fx): GainProcessor, BigMuffFuzz, AnalogDelay,           *)
(* ChorusCE2, PitchShifter, Phase90Processor, GainBoostProcessor and       *)
(* ChromaticTuner.                                                         *)
(*                                                                         *)
(* One processor instance is under test in a behaviour (variable fx); its  *)
(* parameters are par, its private members are st.  Every host call        *)
(* (prepareToPlay, processBlock, getStateInformation, setStateInformation, *)
(* a parameter change) is one action.  Seven specifications:               *)
(*   Spec       the host calls prepareToPlay / processBlock / parameter    *)
(*              changes on any of the processors, processBlock on an       *)
(*              unprepared delay effect included;                          *)
(*   SpecState  getStateInformation / setStateInformation, from any        *)
(*              parameter assignment, with whole and truncated buffers;    *)
(*   SpecTwin   two Phase90 processors fed the same calls, bypass set      *)
(*              independently;                                             *)
(*   SpecRT     the audio thread inside processBlock, one parameter read   *)
(*              per step, with a control thread writing parameters.        *)
(*   SpecLine   a delay-line effect or the tuner after prepareToPlay, fed   *)
(*              one sample per processBlock call, recording what each      *)
(*              sample read and wrote;                                     *)
(*   SpecNote   ChromaticTuner::frequencyToNote applied to a frequency;    *)
(*   SpecTuner  the analysis window of ChromaticTuner fed blocks of any     *)
(*              length, shorter and longer than the window.                *)
(*                                                                         *)
(* Numbers: float/double values are fixed-point integers scaled by Q       *)
(* (1.0 is Q).  Products and quotients truncate toward zero.  exp, tanh,   *)
(* sin, tan and pow are rational approximations with the range and         *)
(* monotonicity of the functions they stand for.  Sample rates are whole   *)
(* Hz.                                                                     *)
(***************************************************************************)
EXTENDS Integers, Sequences, FiniteSets, TLC

(***************************************************************************)
(* Fixed-point arithmetic                                                  *)
(***************************************************************************)
\* the fixed-point unit: 1.0
Q == 10 ^ 3

Abs(x) == IF x < 0 THEN -x ELSE x

Sgn(x) == IF x < 0 THEN -1 ELSE 1

Min(a, b) == IF a < b THEN a ELSE b

Max(a, b) == IF a > b THEN a ELSE b

\* a / b truncated toward zero (b > 0)
DivT(a, b) == Sgn(a) * (Abs(a) \div b)

\* fixed-point product a * b
MulQ(a, b) == DivT(a * b, Q)

\* juce::jlimit / std::clamp
Clamp(lo, hi, v) == IF v < lo THEN lo ELSE IF v > hi THEN hi ELSE v

\* floor of the square root of n >= 0 (Newton's iteration from above)
ISqrt(n) ==
    LET RECURSIVE iter(_, _)
        iter(r, r1) == IF r1 >= r THEN r ELSE iter(r1, (r1 + (n \div r1)) \div 2)
        from(r) == iter(r, (r + (n \div r)) \div 2)
    IN  IF n <= 0 THEN 0 ELSE from(Min(n, 46340))

\* std::tanh(x): Pade approximant x(27 + x^2)/(27 + 9x^2), exact limit 1 from |x| >= 3
Tanh(x) ==
    IF Abs(x) >= 3 * Q THEN Sgn(x) * Q
    ELSE LET x2 == (x * x) \div Q
         IN  DivT(x * (27 * Q + x2), 27 * Q + 9 * x2)

\* std::exp(y): Taylor polynomial of degree 3 on |y| <= 1/4, extended by
\* exp(y) = exp(y/2)^2; 0 below the resolution, capped above exp(7)
RECURSIVE ExpQ(_)
ExpQ(y) ==
    IF y <= -(16 * Q) THEN 0
    ELSE IF y > 7 * Q THEN ExpQ(7 * Q)
    ELSE IF Abs(y) <= Q \div 4
         THEN LET y2 == (y * y) \div Q
                  y3 == DivT(y2 * y, Q)
              IN  Q + y + (y2 \div 2) + DivT(y3, 6)
         ELSE LET h == ExpQ(DivT(y, 2)) IN (h * h) \div Q

\* std::pow(10, db / 20)
DbToGain(db) == ExpQ(DivT(db * 2303, 20000))

\* pi and 2*pi
Pi == (31416 * Q) \div 10000

TwoPi == (62832 * Q) \div 10000

\* std::sin(x) for x in [0, 2*pi): Bhaskara's approximation
\* 16 x (pi - x) / (5 pi^2 - 4 x (pi - x)) on [0, pi], odd about pi
SinQ(x) ==
    LET h == IF x >= Pi THEN x - Pi ELSE x
        p == (h * (Pi - h)) \div Q
        v == (16 * p * Q) \div (5 * ((Pi * Pi) \div Q) - 4 * p)
    IN  IF x >= Pi THEN -v ELSE v

\* std::tan(w) for w in [0, pi/2): sin(w) / sin(w + pi/2); infinite (here the
\* largest representable value) where the cosine is below the resolution
TanQ(w) ==
    LET c == SinQ(w + (Pi \div 2))
    IN  IF c <= 0 THEN 100000 * Q ELSE (SinQ(w) * Q) \div c

\* std::log2(num / den) for num, den > 0.  The fractional bits of
\* log2(m / 2^14) for m in [2^14, 2^15) come from squaring and comparing, n
\* bits, in units of 2^-n
RECURSIVE Log2Q(_, _)
Log2Q(num, den) ==
    LET RECURSIVE frac(_, _, _, _)
        frac(m, sq, n, acc) ==
            IF n = 0 THEN acc
            ELSE IF sq >= 32768
                 THEN frac(sq \div 2, ((sq \div 2) * (sq \div 2)) \div 16384, n - 1, 2 * acc + 1)
                 ELSE frac(sq, (sq * sq) \div 16384, n - 1, 2 * acc)
        bits(m) == frac(m, (m * m) \div 16384, 10, 0)
    IN  IF num >= 2 * den THEN Q + Log2Q(num, 2 * den)
        ELSE IF num < den THEN Log2Q(2 * num, den) - Q
        ELSE (bits((num * 16384) \div den) * Q) \div 1024

\* 1 - exp(-2*pi*fc/fs) as the doubles compute it, before the clamp to [0, 1]:
\* fs = 0 gives exp(-inf) = 0; fs < 0 gives exp of a positive number, above 1
OnePoleAlphaRaw(fc, fs) ==
    IF fs = 0 THEN Q
    ELSE IF fs < 0 THEN Q - ExpQ((TwoPi * fc) \div (-fs))
    ELSE Q - ExpQ(-((TwoPi * fc) \div fs))

\* lo * (hi/lo)^t for t in {0, 1/4, 1/2, 3/4, 1}: std::pow on the parameter grid
GeoMap(lo, hi, t) ==
    LET mid == ISqrt(lo * hi)
    IN  IF t <= 0 THEN lo
        ELSE IF t >= Q THEN hi
        ELSE IF 2 * t = Q THEN mid
        ELSE IF 2 * t < Q THEN ISqrt(lo * mid)
        ELSE ISqrt(mid * hi)

(***************************************************************************)
(* Bounds of the model                                                     *)
(***************************************************************************)
\* samples per processBlock call
MaxBlock == 2

\* host calls per behaviour
MaxCalls == 3

\* sample i (from 1) of the input signals: silence, impulse, step, negative
\* step, alternating full scale, a slow ramp and a burst of four samples
\* (|x| <= 1 over the lengths used)
Wave(k, i) ==
    CASE k = "zero" -> 0
      [] k = "impulse" -> IF i = 1 THEN Q ELSE 0
      [] k = "step" -> Q
      [] k = "negstep" -> -Q
      [] k = "alt" -> IF i % 2 = 1 THEN Q ELSE -Q
      [] k = "ramp" -> 40 * i
      [] k = "burst" -> IF i <= 4 THEN Q ELSE 0

\* the blocks handed to processBlock, MaxBlock samples each
Blocks == {[i \in 1..MaxBlock |-> Wave(k, i)] : k \in {"zero", "impulse", "step", "negstep", "alt"}}

\* channel counts of the buffers handed to processBlock
ChannelCounts == {1, 2}

Effects ==
    {"GainProcessor", "BigMuffFuzz", "AnalogDelay", "ChorusCE2", "PitchShifter",
     "Phase90", "Tuner", "GainBoost"}

\* the effects whose processBlock returns at once while bypass is on
ShortCircuit ==
    {"GainProcessor", "BigMuffFuzz", "AnalogDelay", "ChorusCE2", "PitchShifter", "GainBoost"}

\* sample rates the host passes to prepareToPlay, per effect (Hz)
SampleRates(e) ==
    CASE e = "GainBoost" -> {-40, 0, 40, 60}
      [] e = "AnalogDelay" -> {-20, 0, 10, 20}
      [] e = "ChorusCE2" -> {-400, 0, 200, 400}
      [] e = "Tuner" -> {-1200, 0, 1200, 2400}
      [] e = "Phase90" -> {-44100, 0, 8000, 44100}
      [] OTHER -> {-44100, 0, 22050, 44100}

VARIABLES
    fx,      \* the effect under test
    par,     \* its parameters (AudioParameterFloat / AudioParameterBool values)
    st,      \* its private members
    bus,     \* getTotalNumInputChannels(): channels of the bus layout
    phase,   \* "Uninitialized", "Prepared", "Processing" or "Failed"
    saved,   \* the last MemoryBlock written by getStateInformation
    last,    \* the last host call: its arguments and results
    calls,   \* number of host calls so far
    twin,    \* a second processor run side by side with the first
    rt       \* the audio thread inside processBlock: position and reads so far

vars == <<fx, par, st, bus, phase, saved, last, calls, twin, rt>>

(***************************************************************************)
(* Parameters (juce::AudioParameterFloat, juce::AudioParameterBool)        *)
(***************************************************************************)
\* the declared parameters, in declaration order
ParamSpec(e) ==
    CASE e = "GainProcessor" ->
           << [name |-> "drive",  kind |-> "float", lo |-> 0, hi |-> Q, def |-> 500],
              [name |-> "filter", kind |-> "float", lo |-> 0, hi |-> Q, def |-> 500],
              [name |-> "volume", kind |-> "float", lo |-> 0, hi |-> Q, def |-> 800],
              [name |-> "bypass", kind |-> "bool",  lo |-> 0, hi |-> Q, def |-> 0] >>
      [] e = "BigMuffFuzz" ->
           << [name |-> "sustain", kind |-> "float", lo |-> 0, hi |-> Q, def |-> 600],
              [name |-> "tone",    kind |-> "float", lo |-> 0, hi |-> Q, def |-> 500],
              [name |-> "volume",  kind |-> "float", lo |-> 0, hi |-> Q, def |-> 800],
              [name |-> "bypass",  kind |-> "bool",  lo |-> 0, hi |-> Q, def |-> 0] >>
      [] e = "AnalogDelay" ->
           << [name |-> "delay",  kind |-> "float", lo |-> 0, hi |-> Q, def |-> 500],
              [name |-> "mix",    kind |-> "float", lo |-> 0, hi |-> Q, def |-> 500],
              [name |-> "regen",  kind |-> "float", lo |-> 0, hi |-> Q, def |-> 500],
              [name |-> "bypass", kind |-> "bool",  lo |-> 0, hi |-> Q, def |-> 0] >>
      [] e = "ChorusCE2" ->
           << [name |-> "rate",   kind |-> "float", lo |-> 50, hi |-> 6 * Q, def |-> 548],
              [name |-> "depth",  kind |-> "float", lo |-> 0, hi |-> Q, def |-> 500],
              [name |-> "bypass", kind |-> "bool",  lo |-> 0, hi |-> Q, def |-> 0] >>
      [] e = "PitchShifter" ->
           << [name |-> "blend",  kind |-> "float", lo |-> 0, hi |-> Q, def |-> 500],
              [name |-> "up2",    kind |-> "bool",  lo |-> 0, hi |-> Q, def |-> 0],
              [name |-> "up1",    kind |-> "bool",  lo |-> 0, hi |-> Q, def |-> 0],
              [name |-> "down1",  kind |-> "bool",  lo |-> 0, hi |-> Q, def |-> 0],
              [name |-> "down2",  kind |-> "bool",  lo |-> 0, hi |-> Q, def |-> 0],
              [name |-> "bypass", kind |-> "bool",  lo |-> 0, hi |-> Q, def |-> 0] >>
      [] e = "Phase90" ->
           << [name |-> "rate",   kind |-> "float", lo |-> 50, hi |-> 6 * Q, def |-> 600],
              [name |-> "bypass", kind |-> "bool",  lo |-> 0, hi |-> Q, def |-> 0] >>
      [] e = "Tuner" ->
           << [name |-> "useflats", kind |-> "bool", lo |-> 0, hi |-> Q, def |-> 0] >>
      [] e = "GainBoost" ->
           << [name |-> "gain",   kind |-> "float", lo |-> 0, hi |-> Q, def |-> 500],
              [name |-> "bypass", kind |-> "bool",  lo |-> 0, hi |-> Q, def |-> 0] >>

ParamNames(e) == {ParamSpec(e)[i].name : i \in 1..Len(ParamSpec(e))}

SpecOf(e, n) == CHOOSE p \in {ParamSpec(e)[i] : i \in 1..Len(ParamSpec(e))} : p.name = n

\* NormalisableRange::snapToLegalValue with the interval 0.01 of AudioParameterFloat
SnapToLegalValue(p, v) ==
    LET step == Q \div 100
        c    == Clamp(p.lo, p.hi, v)
    IN  Clamp(p.lo, p.hi, p.lo + step * ((2 * (c - p.lo) + step) \div (2 * step)))

\* NormalisableRange::convertTo0to1 (5 more digits than Q, as float has)
ConvertTo0to1(p, v) == ((Clamp(p.lo, p.hi, v) - p.lo) * 100000) \div (p.hi - p.lo)

\* NormalisableRange::convertFrom0to1
ConvertFrom0to1(p, n) == p.lo + ((p.hi - p.lo) * Clamp(0, 100000, n)) \div 100000

\* AudioProcessorParameter::setValueNotifyingHost(normalised) on a float or a bool
\* parameter: the new parameter value
SetValueNotifyingHost(p, n) ==
    IF p.kind = "bool" THEN (IF 2 * n >= 100000 THEN 1 ELSE 0)
    ELSE SnapToLegalValue(p, ConvertFrom0to1(p, n))

\* a float holding value v, handed over as a normalised value (v read as 0..1)
AsNormalised(v) == Clamp(0, 100000, v * (100000 \div Q))

\* the values a host or editor sets a parameter to
ParamGrid(p) ==
    IF p.kind = "bool" THEN {0, 1}
    ELSE {p.lo, SnapToLegalValue(p, (p.lo + p.hi) \div 2), p.hi}

DefaultParams(e) == [n \in ParamNames(e) |-> SpecOf(e, n).def]

\* static_cast<bool>(*param)
IsOn(v) == v /= 0

(***************************************************************************)
(* Results of a processing call                                            *)
(***************************************************************************)
\* the processor state, the block as written back (one sequence per
\* channel), and the number of buffers created or resized by the call
Result(s, o, a) == [st |-> s, out |-> o, allocs |-> a]

\* the result of a processBlock whose loops ended with the members r.st and the
\* block r.buf
Returned(r, a) == Result(r.st, r.buf, a)

\* the outcome of prepareToPlay: the members after the call, and whether the
\* call ended in an exception (std::length_error from a negative vector size)
Prepared(s) == [st |-> s, threw |-> FALSE]

Threw(s) == [st |-> s, threw |-> TRUE]

\* std::ceil(a / b) for b > 0
CeilDiv(a, b) == -((-a) \div b)

\* the block as the host handed it in: channel -> samples
Buffer(nch, in) == [c \in 1..nch |-> in]

\* replace sample i of channel ch (both from 0) in a block
PutSample(buf, ch, i, v) == [buf EXCEPT ![ch + 1][i + 1] = v]

(***************************************************************************)
(* GainProcessor (GainProcessor.h)                                         *)
(***************************************************************************)
GainProcessor_Construct ==
    [sampleRate |-> 44100, lowpassState |-> << >>, lastCutoff |-> -1, lpAlpha |-> Q]

\* the cutoff in Hz for the filter knob
GainProcessor_cutoff(fVal) == GeoMap(475, 32000, fVal)

\* an updateFilterCoeffs without the two clamps
GainProcessor_updateFilterCoeffs_unclamped(s, p) ==
    LET cutoff == GainProcessor_cutoff(p.filter)
    IN  [s EXCEPT !.lastCutoff = cutoff,
                  !.lpAlpha = OnePoleAlphaRaw(cutoff, s.sampleRate)]

GainProcessor_updateFilterCoeffs(s, p) ==
    LET cutoff == GainProcessor_cutoff(p.filter)
    IN  [s EXCEPT !.lastCutoff = cutoff,
                  !.lpAlpha = Clamp(0, Q, OnePoleAlphaRaw(cutoff, s.sampleRate))]

\* a gate that never recomputes
GainProcessor_updateFilterCoeffsIfNeeded_never(s, p) == s

GainProcessor_updateFilterCoeffsIfNeeded(s, p) ==
    LET cutoff == GainProcessor_cutoff(p.filter)
    IN  IF Abs(cutoff - s.lastCutoff) > 1
        THEN [s EXCEPT !.lastCutoff = cutoff,
                       !.lpAlpha = Clamp(0, Q, OnePoleAlphaRaw(cutoff, s.sampleRate))]
        ELSE s

GainProcessor_prepareToPlay(s, p, sampleRateIn, busCh) ==
    LET numCh == Max(1, busCh)
        s1 == [s EXCEPT !.sampleRate = sampleRateIn,
                        !.lowpassState = [c \in 1..numCh |-> 0],
                        !.lastCutoff = -1]
    IN  Prepared(GainProcessor_updateFilterCoeffs(s1, p))

\* the diode clamp of processSampleInternal: threshold 0.6, knee 0.2
GainProcessor_diodeClamp(v) ==
    LET diodeThresh == 600
        knee == 200
        absV == Abs(v)
        over == absV - (diodeThresh - knee)
        clampAmount == MulQ(Tanh((over * Q) \div knee), absV - (diodeThresh - knee))
    IN  IF absV <= diodeThresh - knee THEN v
        ELSE Sgn(v) * ((diodeThresh - knee) + clampAmount)

\* one sample: [st, out]
GainProcessor_processSampleInternal(s, p, in, ch) ==
    LET \* x = 0.15 * x + 0.85 * clipped, on the output x of tanh(2x)
        clip(x) == MulQ(150, x) + MulQ(850, GainProcessor_diodeClamp(x))
        \* y = a * x + (1 - a) * lowpassState[ch]
        lowpass(s1, x) == MulQ(s1.lpAlpha, x) + MulQ(Q - s1.lpAlpha, s1.lowpassState[ch + 1])
        \* lowpassState[ch] = y, the gain of the volume knob and the final tanh
        output(s1, y) ==
            [st |-> [s1 EXCEPT !.lowpassState[ch + 1] = y],
             out |-> Tanh(10 * MulQ(y, DbToGain(66 * p.volume - 60 * Q)))]
        \* s1: the members as updateFilterCoeffsIfNeeded left them
        filter(s1, x) == output(s1, lowpass(s1, x))
    IN  filter(GainProcessor_updateFilterCoeffsIfNeeded(s, p),
               clip(Tanh(2 * MulQ(in, DbToGain(36 * p.drive - 6 * Q)))))

(***************************************************************************)
(* GainBoostProcessor (GainBoost.h)                                        *)
(***************************************************************************)
\* juce::SmoothedValue<float> (linear), default constructed
SmoothedValue_Construct ==
    [currentValue |-> 0, target |-> 0, countdown |-> 0, step |-> 0, stepsToTarget |-> 0]

\* SmoothedValue::reset(sampleRate, rampLengthInSeconds) with the ramp 0.05 s
SmoothedValue_reset(v, sampleRate) ==
    [v EXCEPT !.stepsToTarget = (sampleRate * 50) \div Q,
              !.currentValue = v.target,
              !.countdown = 0]

SmoothedValue_setTargetValue(v, newValue) ==
    IF newValue = v.target THEN v
    ELSE IF v.stepsToTarget <= 0
         THEN [v EXCEPT !.target = newValue, !.currentValue = newValue, !.countdown = 0]
         ELSE [v EXCEPT !.target = newValue,
                        !.countdown = v.stepsToTarget,
                        !.step = DivT(newValue - v.currentValue, v.stepsToTarget)]

\* SmoothedValue::getNextValue: the value after the call (getNextValue returns
\* its currentValue, or the target when it is not smoothing)
SmoothedValue_getNextValue(v) ==
    IF v.countdown <= 0 THEN v
    ELSE IF v.countdown - 1 > 0
         THEN [v EXCEPT !.countdown = v.countdown - 1,
                        !.currentValue = v.currentValue + v.step]
         ELSE [v EXCEPT !.countdown = 0, !.currentValue = v.target]

SmoothedValue_returned(v0, v1) == IF v0.countdown <= 0 THEN v0.target ELSE v1.currentValue

GainBoost_Construct ==
    [currentSampleRate |-> 44100, smoothedGain |-> SmoothedValue_Construct]

GainBoost_calculateCircuitGain(knobPosition) ==
    LET R4 == 56000
        R5_max == 500000
        R6 == 2700
        R5 == knobPosition * (R5_max \div Q)
        gain == Q + ((R4 + R5) * Q) \div R6
    IN  Min(gain, 20 * Q)

GainBoost_prepareToPlay(s, p, sampleRate, busCh) ==
    Prepared([s EXCEPT !.currentSampleRate = sampleRate,
                       !.smoothedGain = SmoothedValue_reset(s.smoothedGain, sampleRate)])

RECURSIVE GainBoost_loop(_, _, _, _)
GainBoost_loop(s, buf, ch, i) ==
    IF ch >= Len(buf) THEN Result(s, buf, 0)
    ELSE IF i >= Len(buf[ch + 1]) THEN GainBoost_loop(s, buf, ch + 1, 0)
    ELSE LET v1 == SmoothedValue_getNextValue(s.smoothedGain)
             g  == SmoothedValue_returned(s.smoothedGain, v1)
         IN  GainBoost_loop([s EXCEPT !.smoothedGain = v1],
                            PutSample(buf, ch, i, MulQ(buf[ch + 1][i + 1], g)), ch, i + 1)

\* processBlock(AudioBuffer<float>&)
GainBoost_processBlock(s, p, buf) ==
    IF IsOn(p.bypass) THEN Result(s, buf, 0)
    ELSE LET targetGain == GainBoost_calculateCircuitGain(p.gain)
             s1 == [s EXCEPT !.smoothedGain =
                                SmoothedValue_setTargetValue(s.smoothedGain, targetGain)]
         IN  GainBoost_loop(s1, buf, 0, 0)

\* processBlock(AudioBuffer<double>&): converts through a temporary float buffer
GainBoost_processBlockDouble(s, p, buf) ==
    IF IsOn(p.bypass) THEN Result(s, buf, 0)
    ELSE LET r == GainBoost_processBlock(s, p, buf)
         IN  Result(r.st, r.out, r.allocs + 1)

(***************************************************************************)
(* BigMuffFuzz (BigMuffFuzz.h)                                             *)
(***************************************************************************)
BigMuffFuzz_Construct ==
    [sampleRate |-> 44100, lpState |-> << >>, hpState |-> << >>, midState |-> << >>,
     lastTone |-> -1, lpAlpha |-> Q, hpAlpha |-> Q, toneCenterFreq |-> 800]

BigMuffFuzz_softDiodeClip(v, threshold, knee) ==
    IF Abs(v) <= threshold - knee THEN v
    ELSE Sgn(v) * ((threshold - knee)
                   + MulQ(Tanh(((Abs(v) - (threshold - knee)) * Q) \div knee),
                          Abs(v) - (threshold - knee)))

\* the centre frequency in Hz for the tone knob
BigMuffFuzz_center(t) == GeoMap(250, 3500, t)

\* updateToneCoeffs with the tone value t its own read of *tone returns
BigMuffFuzz_updateToneCoeffs(s, t) ==
    LET center == BigMuffFuzz_center(t)
    IN  [s EXCEPT !.toneCenterFreq = center,
                  !.lpAlpha = Clamp(0, Q, OnePoleAlphaRaw((center * 45) \div 100, s.sampleRate)),
                  !.hpAlpha = Clamp(0, Q, OnePoleAlphaRaw((center * 9) \div 10, s.sampleRate)),
                  !.lastTone = center]

\* updateToneIfNeeded: t1 is the value its read of *tone returns, t2 the value
\* the read inside updateToneCoeffs returns
BigMuffFuzz_updateToneIfNeeded(s, t1, t2) ==
    IF Abs(BigMuffFuzz_center(t1) - s.lastTone) > 1
    THEN BigMuffFuzz_updateToneCoeffs(s, t2)
    ELSE s

BigMuffFuzz_prepareToPlay(s, p, sampleRateIn, busCh) ==
    LET numCh == Max(1, busCh)
        s1 == [s EXCEPT !.sampleRate = sampleRateIn,
                        !.lpState = [c \in 1..numCh |-> 0],
                        !.hpState = [c \in 1..numCh |-> 0],
                        !.midState = [c \in 1..numCh |-> 0],
                        !.lastTone = -1]
    IN  Prepared(BigMuffFuzz_updateToneCoeffs(s1, p.tone))

\* the reads of one processSampleInternal call: bypass (l.59), sustain (l.65),
\* tone in updateToneIfNeeded (l.514), tone in updateToneCoeffs (l.496),
\* tone for the mix (l.104), volume (l.122)
BigMuffFuzz_reads(p) ==
    [bypass |-> p.bypass, sustain |-> p.sustain, tone1 |-> p.tone, tone2 |-> p.tone,
     tone3 |-> p.tone, volume |-> p.volume]

BigMuffFuzz_processSampleInternal(s, rd, in, ch) ==
    LET \* the diode pair: softDiodeClip(x, 0.6, 0.16) * 0.90 + x * 0.10
        diodePair(x) == MulQ(BigMuffFuzz_softDiodeClip(x, 600, 160), 900) + MulQ(x, 100)
        \* the second clipping stage, on the attenuated output x of the first
        secondStage(x) == diodePair(Tanh(MulQ(2 * Q + 3 * rd.sustain, x)))
        \* the two one-pole filters of the tone stage
        bands(s1, x) ==
            [low |-> MulQ(s1.lpAlpha, x) + MulQ(Q - s1.lpAlpha, s1.lpState[ch + 1]),
             lowForHP |-> MulQ(s1.hpAlpha, x) + MulQ(Q - s1.hpAlpha, s1.hpState[ch + 1])]
        \* midGain = 1 - clamp(1 - 4 |tVal - 0.5|, 0, 1) * 0.85
        midGain(tVal) == Q - MulQ(Clamp(0, Q, Q - 4 * Abs(tVal - 500)), 850)
        \* toneOut = low * (1 - tVal) + high * tVal + mid * midGain, where
        \* high = x - lowForHP and mid = x - (low + high)
        toneOut(b, x, tVal) ==
            MulQ(b.low, Q - tVal) + MulQ(x - b.lowForHP, tVal)
                + MulQ(x - (b.low + (x - b.lowForHP)), midGain(tVal))
        \* the filter states are stored; y = 0.6 toneOut + 0.4 midState[ch],
        \* the gain of the volume knob and the final tanh
        output(s1, b, t) ==
            [st |-> [s1 EXCEPT !.lpState[ch + 1] = b.low,
                               !.hpState[ch + 1] = b.lowForHP,
                               !.midState[ch + 1] = t],
             out |-> Tanh(8 * MulQ(MulQ(600, t) + MulQ(400, s1.midState[ch + 1]),
                                   DbToGain(66 * rd.volume - 60 * Q)))]
        tone(s1, b, x) == output(s1, b, toneOut(b, x, rd.tone3))
        \* s1: the members as updateToneIfNeeded left them
        toneStage(s1, x) == tone(s1, bands(s1, x), x)
    IN  IF IsOn(rd.bypass) THEN [st |-> s, out |-> in]
        ELSE toneStage(
                 BigMuffFuzz_updateToneIfNeeded(s, rd.tone1, rd.tone2),
                 secondStage(MulQ(BigMuffFuzz_softDiodeClip(
                                      MulQ(in, DbToGain(56 * rd.sustain - 10 * Q)), 750, 200),
                                  880)))

(***************************************************************************)
(* AnalogDelay (AnalogDelay.h)                                             *)
(***************************************************************************)
AnalogDelay_Construct ==
    [delayBuffer |-> << >>, bufferSize |-> 0, writeIndex |-> 0, sampleRate |-> 44100,
     fbState |-> << >>, lastFbCutoff |-> -1, fbAlpha |-> Q]

\* the feedback cutoff in Hz for the scaled regen value
AnalogDelay_cutoff(regenVal) == (6000 * (Q - regenVal) + 800 * regenVal) \div Q

\* regenScale
AnalogDelay_regenGain(regen) == MulQ(regen, 330)

AnalogDelay_updateFeedbackCoeffs(s, regen) ==
    LET cutoff == AnalogDelay_cutoff(AnalogDelay_regenGain(regen))
    IN  [s EXCEPT !.lastFbCutoff = cutoff,
                  !.fbAlpha = Clamp(0, Q, OnePoleAlphaRaw(cutoff, s.sampleRate))]

AnalogDelay_updateFeedbackCoeffsIfNeeded(s, regenVal) ==
    LET cutoff == AnalogDelay_cutoff(regenVal)
    IN  IF Abs(cutoff - s.lastFbCutoff) > 1
        THEN [s EXCEPT !.lastFbCutoff = cutoff,
                       !.fbAlpha = Clamp(0, Q, OnePoleAlphaRaw(cutoff, s.sampleRate))]
        ELSE s

\* a prepareToPlay that sizes the buffer for a tenth of the longest delay
AnalogDelay_prepareToPlay_tenth(s, p, sampleRateIn, busCh) ==
    LET maxSamples == CeilDiv(65 * sampleRateIn, 1000) + 4
        s0 == [s EXCEPT !.sampleRate = sampleRateIn]
        s1 == [s0 EXCEPT !.delayBuffer = [i \in 1..maxSamples |-> 0],
                         !.bufferSize = maxSamples,
                         !.writeIndex = 0,
                         !.fbState = <<0>>,
                         !.lastFbCutoff = -1]
    IN  IF maxSamples < 0 THEN Threw(s0)
        ELSE Prepared(AnalogDelay_updateFeedbackCoeffs(s1, p.regen))

AnalogDelay_prepareToPlay(s, p, sampleRateIn, busCh) ==
    LET maxSamples == CeilDiv(650 * sampleRateIn, 1000) + 4
        s0 == [s EXCEPT !.sampleRate = sampleRateIn]
        s1 == [s0 EXCEPT !.delayBuffer = [i \in 1..maxSamples |-> 0],
                         !.bufferSize = maxSamples,
                         !.writeIndex = 0,
                         !.fbState = <<0>>,
                         !.lastFbCutoff = -1]
    IN  IF maxSamples < 0 THEN Threw(s0)
        ELSE Prepared(AnalogDelay_updateFeedbackCoeffs(s1, p.regen))

\* a wrap that adds one slot less than the buffer holds
RECURSIVE WrapReadPos_short(_, _, _)
WrapReadPos_short(readPos, size, n) ==
    IF readPos < 0 THEN WrapReadPos_short(readPos + (size - 1) * Q, size, n + 1)
    ELSE [pos |-> readPos, iterations |-> n]

\* while (readPos < 0.0) readPos += bufferSize: the position and the number
\* of iterations
RECURSIVE WrapReadPos(_, _, _)
WrapReadPos(readPos, size, n) ==
    IF readPos < 0 THEN WrapReadPos(readPos + size * Q, size, n + 1)
    ELSE [pos |-> readPos, iterations |-> n]

\* a delay ten times as long
AnalogDelay_delaySamples_tenfold(dVal, sampleRate) ==
    GeoMap(200, 6500, dVal) * sampleRate

\* the delay in samples (fixed point) for the delay knob
AnalogDelay_delaySamples(dVal, sampleRate) ==
    LET delayMs10 == GeoMap(200, 6500, dVal)
    IN  (delayMs10 * sampleRate) \div 10

AnalogDelay_processSampleInternal(s, rd, in, ch) ==
    LET \* idxA, idxB, frac and the linear interpolation at the wrapped readPos
        interpolate(pos) ==
            MulQ(s.delayBuffer[((pos \div Q) % s.bufferSize) + 1], Q - (pos % Q))
                + MulQ(s.delayBuffer[((((pos \div Q) % s.bufferSize) + 1) % s.bufferSize) + 1],
                       pos % Q)
        \* fbFiltered = a * fbIn + (1 - a) * fbState[0]
        feedback(s1, fbIn) == MulQ(s1.fbAlpha, fbIn) + MulQ(Q - s1.fbAlpha, s1.fbState[1])
        \* fbState[0] = fbFiltered; delayBuffer[writeIndex] = tanh(3 (in + 0.95 fbFiltered));
        \* ++writeIndex, wrapped
        write(s1, fbFiltered) ==
            [s1 EXCEPT !.fbState[1] = fbFiltered,
                       !.delayBuffer[s.writeIndex + 1] = Tanh(3 * (in + MulQ(fbFiltered, 950))),
                       !.writeIndex = IF s.writeIndex + 1 >= s.bufferSize THEN 0
                                      ELSE s.writeIndex + 1]
        \* s1: the members as updateFeedbackCoeffsIfNeeded left them; beside
        \* the members and the sample returned, the delay, the iterations of
        \* the while loop and the delayed tap of this call
        mix(s1, delayed, regenGain, d, rp) ==
            [st |-> write(s1, feedback(s1, MulQ(delayed, regenGain))),
             out |-> Tanh(10 * (MulQ(Q - rd.mix, in) + MulQ(rd.mix, delayed))),
             delaySamples |-> d, iterations |-> rp.iterations, delayed |-> delayed]
        regen(delayed, regenGain, d, rp) ==
            mix(AnalogDelay_updateFeedbackCoeffsIfNeeded(s, regenGain), delayed, regenGain, d, rp)
        \* rp: readPos after the while loop
        read(d, rp) == regen(interpolate(rp.pos), AnalogDelay_regenGain(rd.regen), d, rp)
        \* readPos = writeIndex - delaySamples
        tap(d) == read(d, WrapReadPos(s.writeIndex * Q - d, s.bufferSize, 0))
    IN  tap(AnalogDelay_delaySamples(rd.delay, s.sampleRate))

(***************************************************************************)
(* ChorusCE2 (ChorusCE2.h)                                                 *)
(***************************************************************************)
\* 2*pi in the unit of the LFO phases: 10^-6 rad
TwoPiU == 6283185

ChorusCE2_Construct ==
    [sampleRate |-> 44100, delayBuffer |-> << >>, writeIndex |-> << >>, lfoPhase |-> << >>,
     lfoInc |-> 0, baseDelayMs |-> 10 * Q]

\* 2*pi*rateHz / fs in the unit of the LFO phases
LfoIncrement(rateHz, fs) == ((TwoPiU \div fs) * rateHz) \div Q

ChorusCE2_updateLfoIncrement(s, rate) ==
    [s EXCEPT !.lfoInc = LfoIncrement(rate, IF s.sampleRate > 0 THEN s.sampleRate ELSE 44100)]

\* a prepareToPlay that sizes the write indices and the LFO phases for one
\* channel, whatever the bus layout
ChorusCE2_prepareToPlay_mono(s, p, sampleRateIn, busCh) ==
    LET maxSamples == CeilDiv(30 * sampleRateIn, 1000) + 4
        s0 == [s EXCEPT !.sampleRate = sampleRateIn]
        s1 == [s0 EXCEPT !.delayBuffer = [c \in 1..Max(1, busCh) |-> [i \in 1..maxSamples |-> 0]],
                         !.writeIndex = <<0>>,
                         !.lfoPhase = <<0>>,
                         !.baseDelayMs = 10 * Q]
    IN  IF maxSamples < 0 THEN Threw(s0)
        ELSE Prepared(ChorusCE2_updateLfoIncrement(s1, p.rate))

ChorusCE2_prepareToPlay(s, p, sampleRateIn, busCh) ==
    LET maxSamples == CeilDiv(30 * sampleRateIn, 1000) + 4
        s0 == [s EXCEPT !.sampleRate = sampleRateIn]
        s1 == [s0 EXCEPT !.delayBuffer = [c \in 1..Max(1, busCh) |-> [i \in 1..maxSamples |-> 0]],
                         !.writeIndex = [c \in 1..busCh |-> 0],
                         !.lfoPhase = [c \in 1..busCh |-> 0],
                         !.baseDelayMs = 10 * Q]
    IN  IF maxSamples < 0 THEN Threw(s0)
        ELSE Prepared(ChorusCE2_updateLfoIncrement(s1, p.rate))

ChorusCE2_processSampleInternal(s, rd, inSample, ch) ==
    LET w == s.writeIndex[ch + 1]
        \* delaySamples = (baseDelayMs + lfo * modMs * 0.5) * 0.001 * sampleRate with
        \* modMs = depth * maxModMs
        delaySamples(lfo) ==
            DivT((s.baseDelayMs + DivT(MulQ(lfo, MulQ(rd.depth, 6500)), 2)) * s.sampleRate, 1000)
        \* i1, i2, frac and the linear interpolation at the wrapped readPos
        interpolate(buf, pos) ==
            MulQ(Q - (pos % Q), buf[(pos \div Q) + 1])
                + MulQ(pos % Q, buf[(((pos \div Q) + 1) % Len(buf)) + 1])
        \* the write index and the LFO phase advance; dry and wet are mixed and
        \* limited; beside the members and the sample returned, the delay, the
        \* iterations of the while loop and the delayed tap of this call
        mix(buf, delayed, d, rp) ==
            [delaySamples |-> d, iterations |-> rp.iterations, delayed |-> delayed,
             st |-> [s EXCEPT !.delayBuffer[ch + 1] = buf,
                              !.writeIndex[ch + 1] = IF w + 1 >= Len(buf) THEN 0 ELSE w + 1,
                              !.lfoPhase[ch + 1] =
                                  IF s.lfoPhase[ch + 1] + s.lfoInc >= TwoPiU
                                  THEN s.lfoPhase[ch + 1] + s.lfoInc - TwoPiU
                                  ELSE s.lfoPhase[ch + 1] + s.lfoInc],
             out |-> DivT(Tanh(4 * (MulQ(Q - MulQ(600, rd.depth), inSample)
                                    + MulQ(MulQ(600, rd.depth), delayed))), 4)]
        \* rp: readPos after the while loop
        read(buf, d, rp) == mix(buf, interpolate(buf, rp.pos), d, rp)
        \* readPos = w - delaySamples
        tap(buf, d) == read(buf, d, WrapReadPos(w * Q - d, Len(buf), 0))
        \* buf: the channel's delay line after buf[w] = inSample
        written(buf) == tap(buf, delaySamples(SinQ(s.lfoPhase[ch + 1] \div 1000)))
    IN  IF IsOn(rd.bypass) THEN [st |-> s, out |-> inSample]
        ELSE written([s.delayBuffer[ch + 1] EXCEPT ![w + 1] = inSample])

(***************************************************************************)
(* PitchShifter (PitchShifter.h)                                           *)
(***************************************************************************)
\* bufferLen and readOffset of the ring buffer, scaled down from 4096 and 64
BufferLen == 8
ReadOffset == 2

PitchShifter_Construct ==
    [buffer |-> << >>, bufferLen |-> 0, writeIndex |-> 0, readOffset |-> ReadOffset,
     sampleRate |-> 44100,
     voicePos |-> [up2 |-> 0, up1 |-> 0, down1 |-> 0, down2 |-> 0],
     step |-> [up2 |-> Q, up1 |-> Q, down1 |-> Q, down2 |-> Q],
     wetLpState |-> 0, wetHpState |-> 0, lastHpIn |-> 0,
     lpfAlpha |-> Q, hpfAlpha |-> 990]

PitchShifter_bufferIdxWrap(s, idx) ==
    IF s.bufferLen <= 0 THEN 0 ELSE idx % s.bufferLen

\* std::pow(2.0, semis / 12.0) for the four fixed semitone values
PitchShifter_recomputeRatios(s) ==
    [s EXCEPT !.step = [up2 |-> 4 * Q, up1 |-> 2 * Q, down1 |-> Q \div 2, down2 |-> Q \div 4]]

PitchShifter_updateFilterCoeffs(s) ==
    LET fs == IF s.sampleRate <= 0 THEN 44100 ELSE s.sampleRate
        lpf == OnePoleAlphaRaw(8000, fs)
        hpf == (Q * fs) \div (fs + (TwoPi * 60) \div Q)
    IN  [s EXCEPT !.sampleRate = fs,
                  !.lpfAlpha = Clamp(0, Q, lpf),
                  !.hpfAlpha = Clamp(0, Q, hpf)]

PitchShifter_prepareToPlay(s, p, sampleRateIn, busCh) ==
    LET s1 == [s EXCEPT !.sampleRate = sampleRateIn,
                        !.bufferLen = BufferLen,
                        !.buffer = [i \in 1..BufferLen |-> 0],
                        !.writeIndex = 0,
                        !.readOffset = ReadOffset]
        start == PitchShifter_bufferIdxWrap(s1, s1.writeIndex - s1.readOffset) * Q
        s2 == [s1 EXCEPT !.voicePos = [up2 |-> start, up1 |-> start, down1 |-> start, down2 |-> start]]
    IN  Prepared(PitchShifter_updateFilterCoeffs(PitchShifter_recomputeRatios(s2)))

\* std::fmod(pos, bufferLen) for pos >= 0
FMod(pos, len) == pos % (len * Q)

\* readInterpolated(double& pos): the wrapped position and the interpolated sample
PitchShifter_readInterpolated(s, pos0) ==
    LET \* if (pos < 0.0) pos += std::ceil(std::abs(pos / bufferLen)) * bufferLen
        nonNegative(pos) ==
            IF pos < 0 THEN pos + CeilDiv(Abs(pos), s.bufferLen * Q) * s.bufferLen * Q ELSE pos
        \* if (pos >= bufferLen) pos = std::fmod(pos, bufferLen)
        wrapped(pos) == IF pos >= s.bufferLen * Q THEN FMod(pos, s.bufferLen) ELSE pos
        \* s1 + frac * (s2 - s1) with s1 = buffer[i1], s2 = buffer[(i1 + 1) % bufferLen]
        sampleAt(i1, frac) ==
            s.buffer[i1 + 1]
                + MulQ(frac, s.buffer[((i1 + 1) % s.bufferLen) + 1] - s.buffer[i1 + 1])
        \* i1 = floor(pos) % bufferLen, frac = pos - floor(pos)
        readAt(pos) == [pos |-> pos, sample |-> sampleAt((pos \div Q) % s.bufferLen, pos % Q)]
    IN  readAt(wrapped(nonNegative(pos0)))

\* a processVoice without the distance check
PitchShifter_processVoice_unchecked(s, on, v) ==
    LET advance(r) ==
            [st |-> [s EXCEPT !.voicePos[v] =
                                 IF r.pos + s.step[v] >= s.bufferLen * Q
                                 THEN FMod(r.pos + s.step[v], s.bufferLen)
                                 ELSE r.pos + s.step[v]],
             out |-> r.sample, summed |-> TRUE, readPos |-> r.pos]
    IN  IF ~IsOn(on) THEN [st |-> s, out |-> 0, summed |-> FALSE, readPos |-> -1]
        ELSE advance(PitchShifter_readInterpolated(s, s.voicePos[v]))

\* the processVoice lambda for voice v; on is the value its own read of the
\* voice parameter returns.  readPos is the position the voice read at, -1
\* when it did not read
PitchShifter_processVoice(s, on, v) ==
    LET \* if (diff > bufferLen * 0.5 || diff < -bufferLen * 0.5) pos = behindPos
        clampPos(pos, behindPos) ==
            IF 2 * (pos - behindPos) > s.bufferLen * Q
               \/ 2 * (pos - behindPos) < -(s.bufferLen * Q)
            THEN behindPos ELSE pos
        \* outSample = r.sample; pos += step; if (pos >= bufferLen) pos = fmod(pos, bufferLen)
        advance(r) ==
            [st |-> [s EXCEPT !.voicePos[v] =
                                 IF r.pos + s.step[v] >= s.bufferLen * Q
                                 THEN FMod(r.pos + s.step[v], s.bufferLen)
                                 ELSE r.pos + s.step[v]],
             out |-> r.sample, summed |-> TRUE, readPos |-> r.pos]
    IN  IF ~IsOn(on) THEN [st |-> s, out |-> 0, summed |-> FALSE, readPos |-> -1]
        ELSE advance(PitchShifter_readInterpolated(s,
                 clampPos(s.voicePos[v],
                          PitchShifter_bufferIdxWrap(s, s.writeIndex - s.readOffset) * Q)))

\* one line "if (*v) { processVoice(v, ...); ++activeCount; }": outer is the
\* value the if reads, inner the value the lambda reads
PitchShifter_voice(acc, outer, inner, v) ==
    LET \* r: what processVoice returned
        count(r) ==
            [st |-> r.st, sum |-> acc.sum + r.out,
             activeCount |-> acc.activeCount + 1,
             counted |-> acc.counted \cup {v},
             summed |-> IF r.summed THEN acc.summed \cup {v} ELSE acc.summed,
             readPos |-> [acc.readPos EXCEPT ![v] = r.readPos]]
    IN  IF ~IsOn(outer) THEN acc
        ELSE count(PitchShifter_processVoice(acc.st, inner, v))

\* the reads of one processSampleInternal call, in program order
PitchShifter_reads(p) ==
    [bypass |-> p.bypass,
     up2 |-> p.up2, up2v |-> p.up2, up1 |-> p.up1, up1v |-> p.up1,
     down1 |-> p.down1, down1v |-> p.down1, down2 |-> p.down2, down2v |-> p.down2,
     blend |-> p.blend]

\* the ring buffer write and the voices of one sample: state, sum, activeCount
\* and, for the record, the voices counted, the voices summed and the
\* position each voice read at
PitchShifter_voices(s, rd, in) ==
    LET \* buffer[writeIndex] = in; writeIndex = bufferIdxWrap(writeIndex + 1)
        a0 == [st |-> [s EXCEPT !.buffer[s.writeIndex + 1] = in,
                                !.writeIndex = PitchShifter_bufferIdxWrap(s, s.writeIndex + 1)],
               sum |-> 0, activeCount |-> 0, counted |-> {}, summed |-> {},
               readPos |-> [v \in DOMAIN s.voicePos |-> -1]]
    IN  PitchShifter_voice(
            PitchShifter_voice(
                PitchShifter_voice(
                    PitchShifter_voice(a0, rd.up2, rd.up2v, "up2"),
                    rd.up1, rd.up1v, "up1"),
                rd.down1, rd.down1v, "down1"),
            rd.down2, rd.down2v, "down2")

PitchShifter_processSampleInternal(s, rd, in, ch) ==
    LET \* the low-pass, the DC blocker, the blend and the final tanh, from the
        \* members m and the averaged wet sample
        wetFilter(m, wet) ==
            LET lpOut == MulQ(m.lpfAlpha, wet) + MulQ(Q - m.lpfAlpha, m.wetLpState)
                hpOut == MulQ(m.hpfAlpha, m.wetHpState + lpOut - m.lastHpIn)
                out == MulQ(in, Q - rd.blend) + MulQ(hpOut, rd.blend)
            IN  [st |-> [m EXCEPT !.wetLpState = lpOut, !.wetHpState = hpOut,
                                  !.lastHpIn = lpOut],
                 out |-> MulQ(Tanh(5 * out), 999)]
        \* wet = activeCount > 0 ? sum / activeCount : 0
        mix(a) == wetFilter(a.st, IF a.activeCount > 0 THEN DivT(a.sum, a.activeCount) ELSE 0)
    IN  IF IsOn(rd.bypass) THEN [st |-> s, out |-> in]
        ELSE mix(PitchShifter_voices(s, rd, in))

(***************************************************************************)
(* Phase90Processor (Phase90Plugin.h, FxCommon.h)                          *)
(***************************************************************************)
AllpassState == [x1 |-> 0, y1 |-> 0]

Phase90_resetState(s) ==
    [s EXCEPT !.lfoPhase = 0,
              !.allpassStates = [c \in 1..2 |-> [k \in 1..4 |-> AllpassState]],
              !.hpPrevIn = <<0, 0>>,
              !.hpPrevOut = <<0, 0>>]

Phase90_Construct ==
    Phase90_resetState([sampleRate |-> 44100, lfoPhase |-> 0, allpassStates |-> << >>,
                        hpPrevIn |-> << >>, hpPrevOut |-> << >>, hpCoeff |-> 995])

Phase90_prepareToPlay(s, p, newSampleRate, busCh) ==
    LET fs == IF newSampleRate > 0 THEN newSampleRate ELSE 44100
        s1 == Phase90_resetState([s EXCEPT !.sampleRate = fs])
    IN  Prepared([s1 EXCEPT !.hpCoeff = ExpQ(-((TwoPi * 20) \div fs))])

baseFreqs == <<700, 1000, 1300, 1700>>

\* an allpass coefficient 2 / (1 + t), without the -1
Phase90_aCoeff_unnormalised(s, lfo, k) ==
    LET f == baseFreqs[k] + (((baseFreqs[k] * 85) \div 100) * lfo) \div Q
        fClamped == Clamp(5, (s.sampleRate * 49) \div 100, f)
        t == TanQ((Pi * fClamped) \div s.sampleRate)
    IN  (2 * Q * Q) \div (Q + t)

\* the allpass coefficient of stage k for the LFO value lfo; (1 - t) / (1 + t)
\* is computed as -1 + 2 / (1 + t), which stays inside the integer range
Phase90_aCoeff(s, lfo, k) ==
    LET f == baseFreqs[k] + (((baseFreqs[k] * 85) \div 100) * lfo) \div Q
        fClamped == Clamp(5, (s.sampleRate * 49) \div 100, f)
        t == TanQ((Pi * fClamped) \div s.sampleRate)
    IN  (2 * Q * Q) \div (Q + t) - Q

\* an allpass stage with a constant term in its difference equation
Phase90_allpass_biased(reg, a, x) ==
    LET y == reg.x1 + MulQ(a, reg.y1) - MulQ(a, x) + a
    IN  [reg |-> [x1 |-> x, y1 |-> y], y |-> y]

\* one first-order allpass stage: y = -a*x + x1 + a*y1
Phase90_allpass(reg, a, x) ==
    LET y == reg.x1 + MulQ(a, reg.y1) - MulQ(a, x)
    IN  [reg |-> [x1 |-> x, y1 |-> y], y |-> y]

\* four allpass stages side by side, each fed the output of the DC blocker
RECURSIVE Phase90_cascade_parallel(_, _, _, _)
Phase90_cascade_parallel(regs, a, x, k) ==
    LET next(r) ==
            IF k >= 4 THEN [regs |-> [regs EXCEPT ![k] = r.reg], y |-> r.y]
            ELSE Phase90_cascade_parallel([regs EXCEPT ![k] = r.reg], a, x, k + 1)
    IN  next(Phase90_allpass(regs[k], a[k], x))

\* the four cascaded allpass stages from stage k on: the registers after the
\* sample and the output of the last stage
RECURSIVE Phase90_cascade(_, _, _, _)
Phase90_cascade(regs, a, x, k) ==
    LET next(r) == Phase90_cascade([regs EXCEPT ![k] = r.reg], a, r.y, k + 1)
    IN  IF k > 4 THEN [regs |-> regs, y |-> x]
        ELSE next(Phase90_allpass(regs[k], a[k], x))

\* the body of the channel loop for channel ch (from 0) and input xRaw
Phase90_channel(s, a, ch, xRaw) ==
    LET c == ch + 1
        \* the members after the sample and the sample written back
        done(x, r) ==
            [st |-> [s EXCEPT !.hpPrevIn[c] = xRaw,
                              !.hpPrevOut[c] = x,
                              !.allpassStates[c] = r.regs],
             out |-> r.y]
        \* x: the output of the DC blocker
        filtered(x) == done(x, Phase90_cascade(s.allpassStates[c], a, x, 1))
    IN  filtered(MulQ(s.hpCoeff, s.hpPrevOut[c] + xRaw - s.hpPrevIn[c]))

\* the channel loop for sample n (from 1), from channel ch on
RECURSIVE Phase90_channels(_, _, _, _, _, _)
Phase90_channels(s, a, buf, n, ch, numChannels) ==
    LET next(r) ==
            Phase90_channels(r.st, a, [buf EXCEPT ![ch + 1][n] = r.out], n, ch + 1, numChannels)
    IN  IF ch >= numChannels THEN [st |-> s, buf |-> buf]
        ELSE next(Phase90_channel(s, a, ch, buf[ch + 1][n]))

\* the sample loop of processBlock from sample n (from 1) on
RECURSIVE Phase90_samples(_, _, _, _)
Phase90_samples(s, phaseInc, buf, n) ==
    LET \* lfoPhase += phaseInc; if (lfoPhase >= twoPi) lfoPhase -= twoPi
        wrapPhase(ph) == IF ph >= TwoPiU THEN ph - TwoPiU ELSE ph
        \* aCoeffs[0..3] for the LFO value lfo
        aCoeffs(lfo) == [k \in 1..4 |-> Phase90_aCoeff(s, lfo, k)]
        next(r) == Phase90_samples(r.st, phaseInc, r.buf, n + 1)
    IN  IF n > Len(buf[1]) THEN [st |-> s, buf |-> buf]
        ELSE next(Phase90_channels([s EXCEPT !.lfoPhase = wrapPhase(s.lfoPhase + phaseInc)],
                                   aCoeffs(SinQ(s.lfoPhase \div 1000)),
                                   buf, n, 0, Min(2, Len(buf))))

\* a processBlock that leaves the block alone while bypass is on
Phase90_processBlock_bypassing(s, p, buf) ==
    IF IsOn(p.bypass) THEN Result(s, buf, 0)
    ELSE Returned(Phase90_samples(s, LfoIncrement(p.rate, s.sampleRate), buf, 1), 0)

\* processBlock: the rate is read once, bypass is not read at all
Phase90_processBlock(s, p, buf) ==
    Returned(Phase90_samples(s, LfoIncrement(p.rate, s.sampleRate), buf, 1), 0)

(***************************************************************************)
(* ChromaticTuner (Tuner.h)                                                *)
(***************************************************************************)
\* bufferSize of the analysis buffer, scaled down from 8192
TunerBufferSize == 4

Tuner_Construct ==
    [sampleRate |-> 44100, bufferSize |-> TunerBufferSize,
     circularBuffer |-> [i \in 1..TunerBufferSize |-> 0], writePos |-> 0,
     detectedFrequency |-> 0, detectedNote |-> << >>, detectedCents |-> 0]

Tuner_prepareToPlay(s, p, sampleRateIn, busCh) ==
    Prepared([s EXCEPT !.sampleRate = sampleRateIn,
                       !.circularBuffer = [i \in 1..s.bufferSize |-> 0],
                       !.writePos = 0,
                       !.detectedFrequency = 0])

noteNamesSharps == <<"C", "C#", "D", "D#", "E", "F", "F#", "G", "G#", "A", "A#", "B">>
noteNamesFlats == <<"C", "Db", "D", "Eb", "E", "F", "Gb", "G", "Ab", "A", "Bb", "B">>

\* a frequencyToNote that numbers the octaves from C0 = 0
Tuner_frequencyToNote_octave0(s, p, frequency) ==
    LET midiNote == 69 * Q + 12 * Log2Q(frequency \div 100, 4400)
        nearestNote == (midiNote + Q \div 2) \div Q
        noteInOctave == nearestNote % 12
        octave == nearestNote \div 12
        noteNames == IF IsOn(p.useflats) THEN noteNamesFlats ELSE noteNamesSharps
    IN  IF frequency < 20 * Q \/ frequency > 5000 * Q
        THEN [s EXCEPT !.detectedNote = << >>, !.detectedCents = 0]
        ELSE [s EXCEPT !.detectedCents = (midiNote - nearestNote * Q) * 100,
                       !.detectedNote = <<noteNames[noteInOctave + 1], octave>>]

\* frequencyToNote for a frequency in Hz (fixed point); a note is the pair of
\* its name and its octave, the empty string is the empty sequence
Tuner_frequencyToNote(s, p, frequency) ==
    LET midiNote == 69 * Q + 12 * Log2Q(frequency \div 100, 4400)
        nearestNote == (midiNote + Q \div 2) \div Q
        noteInOctave == nearestNote % 12
        octave == (nearestNote \div 12) - 1
        noteNames == IF IsOn(p.useflats) THEN noteNamesFlats ELSE noteNamesSharps
    IN  IF frequency < 20 * Q \/ frequency > 5000 * Q
        THEN [s EXCEPT !.detectedNote = << >>, !.detectedCents = 0]
        ELSE [s EXCEPT !.detectedCents = (midiNote - nearestNote * Q) * 100,
                       !.detectedNote = <<noteNames[noteInOctave + 1], octave>>]

RECURSIVE SumSeq(_, _)
SumSeq(f, n) == IF n = 0 THEN 0 ELSE f[n] + SumSeq(f, n - 1)

\* the lag loop from lag on: the best correlation and its period
RECURSIVE Tuner_lags(_, _, _, _, _, _)
Tuner_lags(lb, half, lag, maxPeriod, bestCorr, bestPeriod) ==
    LET \* the autocorrelation of the linear buffer at this lag
        corr == SumSeq([i \in 1..half |-> MulQ(lb[i], lb[i + lag])], half)
    IN  IF ~(lag < maxPeriod /\ lag < half) THEN bestPeriod
        ELSE IF corr > bestCorr
             THEN Tuner_lags(lb, half, lag + 1, maxPeriod, corr, lag)
             ELSE Tuner_lags(lb, half, lag + 1, maxPeriod, bestCorr, bestPeriod)

\* a detectPitch that clears the frequency only when it finds no pitch
Tuner_detectPitch_keeping(s, p) ==
    LET n == s.bufferSize
        linearBuffer == [i \in 1..n |-> s.circularBuffer[((s.writePos + i - 1) % n) + 1]]
        sumSq == SumSeq([i \in 1..n |-> linearBuffer[i] * linearBuffer[i]], n)
        minPeriod == DivT(s.sampleRate, 1200)
        maxPeriod == DivT(s.sampleRate, 60)
        bestPeriod == Tuner_lags(linearBuffer, n \div 2, minPeriod, maxPeriod, 0, 0)
        silent == [s EXCEPT !.detectedFrequency = 0]
        frequency == (s.sampleRate * Q) \div bestPeriod
    IN  IF sumSq < 100 * n THEN silent
        ELSE IF bestPeriod > 0
             THEN Tuner_frequencyToNote([s EXCEPT !.detectedFrequency = frequency], p, frequency)
             ELSE silent

Tuner_detectPitch(s, p) ==
    LET n == s.bufferSize
        linearBuffer == [i \in 1..n |-> s.circularBuffer[((s.writePos + i - 1) % n) + 1]]
        sumSq == SumSeq([i \in 1..n |-> linearBuffer[i] * linearBuffer[i]], n)
        minPeriod == DivT(s.sampleRate, 1200)
        maxPeriod == DivT(s.sampleRate, 60)
        bestPeriod == Tuner_lags(linearBuffer, n \div 2, minPeriod, maxPeriod, 0, 0)
        silent == [s EXCEPT !.detectedFrequency = 0, !.detectedNote = << >>, !.detectedCents = 0]
        frequency == (s.sampleRate * Q) \div bestPeriod
    IN  IF sumSq < 100 * n THEN silent
        ELSE IF bestPeriod > 0
             THEN Tuner_frequencyToNote([s EXCEPT !.detectedFrequency = frequency], p, frequency)
             ELSE silent

\* a write loop that skips a slot after every sample
RECURSIVE Tuner_write_skipping(_, _, _)
Tuner_write_skipping(s, inputData, i) ==
    IF i > Len(inputData) THEN s
    ELSE Tuner_write_skipping([s EXCEPT !.circularBuffer[s.writePos + 1] = inputData[i],
                                        !.writePos = (s.writePos + 2) % s.bufferSize],
                              inputData, i + 1)

\* a write loop that starts every block at slot 0
RECURSIVE Tuner_write_restarting(_, _, _)
Tuner_write_restarting(s, inputData, i) ==
    LET at == IF i = 1 THEN 0 ELSE s.writePos
    IN  IF i > Len(inputData) THEN s
        ELSE Tuner_write_restarting([s EXCEPT !.circularBuffer[at + 1] = inputData[i],
                                              !.writePos = (at + 1) % s.bufferSize],
                                    inputData, i + 1)

RECURSIVE Tuner_write(_, _, _)
Tuner_write(s, inputData, i) ==
    IF i > Len(inputData) THEN s
    ELSE Tuner_write([s EXCEPT !.circularBuffer[s.writePos + 1] = inputData[i],
                               !.writePos = (s.writePos + 1) % s.bufferSize],
                     inputData, i + 1)

\* processBlock: the samples are read, not written; detectPitch creates its
\* linearBuffer on every call
Tuner_processBlock(s, p, buf) ==
    Result(Tuner_detectPitch(Tuner_write(s, buf[1], 1), p), buf, 1)

(***************************************************************************)
(* The sample loops of the processBlock functions                          *)
(***************************************************************************)
\* the values the parameter reads of one processSampleInternal call return
\* when no other thread writes a parameter during the call
Reads(e, p) ==
    CASE e = "BigMuffFuzz" -> BigMuffFuzz_reads(p)
      [] e = "PitchShifter" -> PitchShifter_reads(p)
      [] OTHER -> p

ProcessSampleInternal(e, s, rd, in, ch) ==
    CASE e = "GainProcessor" -> GainProcessor_processSampleInternal(s, rd, in, ch)
      [] e = "BigMuffFuzz" -> BigMuffFuzz_processSampleInternal(s, rd, in, ch)
      [] e = "AnalogDelay" -> AnalogDelay_processSampleInternal(s, rd, in, ch)
      [] e = "ChorusCE2" -> ChorusCE2_processSampleInternal(s, rd, in, ch)
      [] e = "PitchShifter" -> PitchShifter_processSampleInternal(s, rd, in, ch)

\* for (ch ...) for (i ...) data[i] = processSampleInternal(data[i], ch),
\* from sample i of channel ch on (both from 0), over numCh channels
RECURSIVE SampleLoop(_, _, _, _, _, _, _)
SampleLoop(e, s, p, buf, ch, i, numCh) ==
    LET \* data[i] = r.out, then sample i + 1
        next(r) == SampleLoop(e, r.st, p, PutSample(buf, ch, i, r.out), ch, i + 1, numCh)
    IN  IF ch >= numCh THEN [st |-> s, buf |-> buf]
        ELSE IF i >= Len(buf[ch + 1]) THEN SampleLoop(e, s, p, buf, ch + 1, 0, numCh)
        ELSE next(ProcessSampleInternal(e, s, Reads(e, p), buf[ch + 1][i + 1], ch))

GainProcessor_processBlock(s, p, buf) ==
    IF IsOn(p.bypass) THEN Result(s, buf, 0)
    ELSE Returned(SampleLoop("GainProcessor", s, p, buf, 0, 0, Len(buf)), 0)

BigMuffFuzz_processBlock(s, p, buf) ==
    IF IsOn(p.bypass) THEN Result(s, buf, 0)
    ELSE Returned(SampleLoop("BigMuffFuzz", s, p, buf, 0, 0, Len(buf)), 0)

\* fbState.resize(numCh) when the block has more channels than fbState
AnalogDelay_resize(s, numCh) ==
    IF Len(s.fbState) < numCh
    THEN [s EXCEPT !.fbState = [c \in 1..numCh |-> IF c <= Len(s.fbState) THEN s.fbState[c] ELSE 0]]
    ELSE s

\* a processBlock without the early return on bypass
AnalogDelay_processBlock_always(s, p, buf) ==
    Returned(SampleLoop("AnalogDelay", AnalogDelay_resize(s, Len(buf)), p, buf, 0, 0, Len(buf)),
             IF Len(s.fbState) < Len(buf) THEN 1 ELSE 0)

AnalogDelay_processBlock(s, p, buf) ==
    IF IsOn(p.bypass) THEN Result(s, buf, 0)
    ELSE Returned(SampleLoop("AnalogDelay", AnalogDelay_resize(s, Len(buf)), p, buf, 0, 0, Len(buf)),
                  IF Len(s.fbState) < Len(buf) THEN 1 ELSE 0)

ChorusCE2_processBlock(s, p, buf) ==
    LET \* updateLfoIncrement() after the loops
        done(r) == Result(ChorusCE2_updateLfoIncrement(r.st, p.rate), r.buf, 0)
    IN  IF IsOn(p.bypass) THEN Result(s, buf, 0)
        ELSE done(SampleLoop("ChorusCE2", s, p, buf, 0, 0, Len(buf)))

\* only channel 0 is processed
PitchShifter_processBlock(s, p, buf) ==
    IF IsOn(p.bypass) THEN Result(s, buf, 0)
    ELSE Returned(SampleLoop("PitchShifter", s, p, buf, 0, 0, 1), 0)

(***************************************************************************)
(* State serialisation (getStateInformation / setStateInformation)         *)
(***************************************************************************)
\* MemoryOutputStream::writeFloat of every parameter in declaration order;
\* a bool is written as 0.0 / 1.0
WriteParams(e, p) ==
    [i \in 1..Len(ParamSpec(e)) |->
        IF ParamSpec(e)[i].kind = "bool" THEN p[ParamSpec(e)[i].name] * Q
        ELSE p[ParamSpec(e)[i].name]]

\* MemoryInputStream::readFloat of float number i (from 1): 0 once the
\* stream is exhausted
ReadFloat(data, i) == IF i <= Len(data) THEN data[i] ELSE 0

\* setValueNotifyingHost(stream.readFloat()) for every parameter in
\* declaration order: the value read is taken as the normalised value, except
\* for the parameters in real, whose value goes through convertTo0to1 first
ReadParams(e, data, real) ==
    [n \in ParamNames(e) |->
        LET i == CHOOSE j \in 1..Len(ParamSpec(e)) : ParamSpec(e)[j].name = n
            v == ReadFloat(data, i)
        IN  SetValueNotifyingHost(ParamSpec(e)[i],
                IF n \in real THEN ConvertTo0to1(ParamSpec(e)[i], v) ELSE AsNormalised(v))]

\* getStateInformation: the parameters in declaration order; the tuner's has
\* an empty body
GetStateInformation(e, p) == IF e = "Tuner" THEN << >> ELSE WriteParams(e, p)

\* [par, st] after setStateInformation(data): the parameters are read back (the
\* two chorus / phaser rates as real values), then the processor refreshes what
\* it derives from them; the tuner's has an empty body
SetStateInformation(e, s, p, data) ==
    LET after(p1) ==
            CASE e = "GainProcessor" -> GainProcessor_updateFilterCoeffs(s, p1)
              [] e = "BigMuffFuzz" -> BigMuffFuzz_updateToneCoeffs(s, p1.tone)
              [] e = "ChorusCE2" -> ChorusCE2_updateLfoIncrement(s, p1.rate)
              [] e = "PitchShifter" -> PitchShifter_recomputeRatios(s)
              [] e = "Phase90" -> Phase90_resetState(s)
              [] OTHER -> s
        restored(p1) == [par |-> p1, st |-> after(p1)]
    IN  IF e = "Tuner" THEN [par |-> p, st |-> s]
        ELSE restored(ReadParams(e, data, IF e \in {"ChorusCE2", "Phase90"} THEN {"rate"} ELSE {}))

(***************************************************************************)
(* The processor under test                                                *)
(***************************************************************************)
Construct(e) ==
    CASE e = "GainProcessor" -> GainProcessor_Construct
      [] e = "BigMuffFuzz" -> BigMuffFuzz_Construct
      [] e = "AnalogDelay" -> AnalogDelay_Construct
      [] e = "ChorusCE2" -> ChorusCE2_Construct
      [] e = "PitchShifter" -> PitchShifter_Construct
      [] e = "Phase90" -> Phase90_Construct
      [] e = "Tuner" -> Tuner_Construct
      [] e = "GainBoost" -> GainBoost_Construct

PrepareToPlay(e, s, p, sr, busCh) ==
    CASE e = "GainProcessor" -> GainProcessor_prepareToPlay(s, p, sr, busCh)
      [] e = "BigMuffFuzz" -> BigMuffFuzz_prepareToPlay(s, p, sr, busCh)
      [] e = "AnalogDelay" -> AnalogDelay_prepareToPlay(s, p, sr, busCh)
      [] e = "ChorusCE2" -> ChorusCE2_prepareToPlay(s, p, sr, busCh)
      [] e = "PitchShifter" -> PitchShifter_prepareToPlay(s, p, sr, busCh)
      [] e = "Phase90" -> Phase90_prepareToPlay(s, p, sr, busCh)
      [] e = "Tuner" -> Tuner_prepareToPlay(s, p, sr, busCh)
      [] e = "GainBoost" -> GainBoost_prepareToPlay(s, p, sr, busCh)

ProcessBlockFloat(e, s, p, buf) ==
    CASE e = "GainProcessor" -> GainProcessor_processBlock(s, p, buf)
      [] e = "BigMuffFuzz" -> BigMuffFuzz_processBlock(s, p, buf)
      [] e = "AnalogDelay" -> AnalogDelay_processBlock(s, p, buf)
      [] e = "ChorusCE2" -> ChorusCE2_processBlock(s, p, buf)
      [] e = "PitchShifter" -> PitchShifter_processBlock(s, p, buf)
      [] e = "Phase90" -> Phase90_processBlock(s, p, buf)
      [] e = "Tuner" -> Tuner_processBlock(s, p, buf)
      [] e = "GainBoost" -> GainBoost_processBlock(s, p, buf)

(***************************************************************************)
(* Host calls                                                              *)
(***************************************************************************)
Init ==
    /\ fx \in Effects
    /\ par = DefaultParams(fx)
    /\ st = Construct(fx)
    /\ bus = 1
    /\ phase = "Uninitialized"
    /\ saved = [valid |-> FALSE, bytes |-> << >>, par |-> DefaultParams(fx)]
    /\ last = [op |-> "construct"]
    /\ calls = 0
    /\ twin = [on |-> FALSE]
    /\ rt = [pc |-> "off"]

\* the host picks a bus layout before preparing (isBusesLayoutSupported
\* accepts every layout with equal input and output channel sets)
SetBusesLayout(n) ==
    /\ phase = "Uninitialized"
    /\ calls = 0
    /\ n /= bus
    /\ bus' = n
    /\ UNCHANGED <<fx, par, st, phase, saved, last, calls, twin, rt>>

\* prepareToPlay(sr, samplesPerBlock); an exception leaves the call and the
\* host does not go on with the processor
Prepare(sr) ==
    /\ calls < MaxCalls
    /\ phase /= "Failed"
    /\ \E r \in {PrepareToPlay(fx, st, par, sr, bus)} :
           /\ st' = r.st
           /\ phase' = IF r.threw THEN "Failed" ELSE "Prepared"
           /\ last' = [op |-> "prepare", sampleRate |-> sr, threw |-> r.threw,
                       fresh |-> PrepareToPlay(fx, Construct(fx), par, sr, bus).st]
    /\ calls' = calls + 1
    /\ UNCHANGED <<fx, par, bus, saved, twin, rt>>

Process(in) ==
    /\ calls < MaxCalls
    /\ phase \in {"Prepared", "Processing"}
    /\ \E r \in {ProcessBlockFloat(fx, st, par, Buffer(bus, in))} :
           /\ st' = r.st
           /\ last' = [op |-> "process", in |-> Buffer(bus, in), out |-> r.out,
                       allocs |-> r.allocs, before |-> st]
    /\ phase' = "Processing"
    /\ calls' = calls + 1
    /\ UNCHANGED <<fx, par, bus, saved, twin, rt>>

\* processBlock on a delay effect that prepareToPlay has not sized yet: the
\* first sample of channel 0 meets the containers of the constructor.
\* AnalogDelay spins in while (readPos < 0.0) readPos += bufferSize when
\* bufferSize is 0; ChorusCE2 indexes delayBuffer[ch] and PitchShifter
\* buffer[writeIndex]. After an access outside a container the behaviour is
\* undefined: the call may return or not, and the host does not go on
ProcessUnprepared(in) ==
    /\ calls < MaxCalls
    /\ phase = "Uninitialized"
    /\ fx \in {"AnalogDelay", "ChorusCE2", "PitchShifter"}
    /\ LET accesses ==
               CASE fx = "AnalogDelay" -> << >>
                 [] fx = "ChorusCE2" ->
                        <<[container |-> "delayBuffer", index |-> 0,
                           size |-> Len(st.delayBuffer)]>>
                 [] fx = "PitchShifter" ->
                        <<[container |-> "buffer", index |-> st.writeIndex,
                           size |-> Len(st.buffer)]>>
           spins == /\ fx = "AnalogDelay"
                    /\ st.bufferSize = 0
                    /\ st.writeIndex * Q - AnalogDelay_delaySamples(par.delay, st.sampleRate) < 0
           outside == \E k \in DOMAIN accesses : accesses[k].index >= accesses[k].size
           done(s, ph, returned, acc) ==
               /\ st' = s
               /\ phase' = ph
               /\ last' = [op |-> "processUnprepared", in |-> Buffer(bus, in),
                           returned |-> returned, accesses |-> acc]
       IN  IF IsOn(par.bypass) THEN done(st, phase, TRUE, << >>)
           ELSE IF spins THEN done(AnalogDelay_resize(st, bus), "Failed", FALSE, accesses)
           ELSE IF outside THEN \E returned \in BOOLEAN : done(st, "Failed", returned, accesses)
           ELSE done(ProcessBlockFloat(fx, st, par, Buffer(bus, in)).st, phase, TRUE, accesses)
    /\ calls' = calls + 1
    /\ UNCHANGED <<fx, par, bus, saved, twin, rt>>

\* processBlock(AudioBuffer<double>&) of GainBoostProcessor
ProcessDouble(in) ==
    /\ calls < MaxCalls
    /\ phase \in {"Prepared", "Processing"}
    /\ fx = "GainBoost"
    /\ \E r \in {GainBoost_processBlockDouble(st, par, Buffer(bus, in))} :
           /\ st' = r.st
           /\ last' = [op |-> "process", in |-> Buffer(bus, in), out |-> r.out,
                       allocs |-> r.allocs, before |-> st]
    /\ phase' = "Processing"
    /\ calls' = calls + 1
    /\ UNCHANGED <<fx, par, bus, saved, twin, rt>>

\* the editor or the host sets a parameter
SetParameter(n, v) ==
    /\ calls < MaxCalls
    /\ phase /= "Failed"
    /\ v /= par[n]
    /\ par' = [par EXCEPT ![n] = v]
    /\ last' = [op |-> "setParameter", name |-> n]
    /\ calls' = calls + 1
    /\ UNCHANGED <<fx, st, bus, phase, saved, twin, rt>>

GetState ==
    /\ calls < MaxCalls
    /\ phase /= "Failed"
    /\ saved' = [valid |-> TRUE, bytes |-> GetStateInformation(fx, par), par |-> par]
    /\ last' = [op |-> "getState"]
    /\ calls' = calls + 1
    /\ UNCHANGED <<fx, par, st, bus, phase, twin, rt>>

\* setStateInformation with the first k floats of the saved block
SetState(k) ==
    /\ calls < MaxCalls
    /\ phase /= "Failed"
    /\ saved.valid
    /\ \E r \in {SetStateInformation(fx, st, par, SubSeq(saved.bytes, 1, k))} :
           /\ par' = r.par
           /\ st' = r.st
    /\ last' = [op |-> "setState", k |-> k, before |-> par]
    /\ calls' = calls + 1
    /\ UNCHANGED <<fx, bus, phase, saved, twin, rt>>

Next ==
    \/ \E n \in ChannelCounts : SetBusesLayout(n)
    \/ \E sr \in SampleRates(fx) : Prepare(sr)
    \/ \E in \in Blocks : Process(in)
    \/ \E in \in Blocks : ProcessUnprepared(in)
    \/ \E in \in Blocks : ProcessDouble(in)
    \/ \E n \in ParamNames(fx) : \E v \in ParamGrid(SpecOf(fx, n)) : SetParameter(n, v)
    \/ GetState
    \/ \E k \in 0..Len(saved.bytes) : SetState(k)

Spec == Init /\ [][Next]_vars

(***************************************************************************)
(* Saving and restoring the parameters, from any parameter values          *)
(***************************************************************************)
\* the parameter values a processor can hold: the default and the grid
ParamAssignments(e) ==
    {p \in [ParamNames(e) -> UNION {ParamGrid(SpecOf(e, n)) \cup {SpecOf(e, n).def} : n \in ParamNames(e)}] :
        \A n \in ParamNames(e) : p[n] \in ParamGrid(SpecOf(e, n)) \cup {SpecOf(e, n).def}}

InitState ==
    /\ fx \in Effects
    /\ par \in ParamAssignments(fx)
    /\ st = Construct(fx)
    /\ bus = 1
    /\ phase = "Uninitialized"
    /\ saved = [valid |-> FALSE, bytes |-> << >>, par |-> par]
    /\ last = [op |-> "construct"]
    /\ calls = 0
    /\ twin = [on |-> FALSE]
    /\ rt = [pc |-> "off"]

NextState ==
    \/ GetState
    \/ \E n \in ParamNames(fx) : \E v \in ParamGrid(SpecOf(fx, n)) : SetParameter(n, v)
    \/ \E k \in 0..Len(saved.bytes) : SetState(k)

SpecState == InitState /\ [][NextState]_vars

(***************************************************************************)
(* Two Phase90 processors side by side: same calls, same samples, same     *)
(* rate, bypass set independently                                          *)
(***************************************************************************)
InitTwin ==
    /\ fx = "Phase90"
    /\ par = DefaultParams(fx)
    /\ st = Construct(fx)
    /\ bus \in ChannelCounts
    /\ phase = "Uninitialized"
    /\ saved = [valid |-> FALSE, bytes |-> << >>, par |-> par]
    /\ last = [op |-> "construct"]
    /\ calls = 0
    /\ twin = [on |-> TRUE, par |-> par, st |-> st, out |-> << >>]
    /\ rt = [pc |-> "off"]

TwinPrepare(sr) ==
    /\ calls < MaxCalls
    /\ st' = PrepareToPlay(fx, st, par, sr, bus).st
    /\ twin' = [twin EXCEPT !.st = PrepareToPlay(fx, twin.st, twin.par, sr, bus).st]
    /\ phase' = "Prepared"
    /\ last' = [op |-> "prepare", sampleRate |-> sr]
    /\ calls' = calls + 1
    /\ UNCHANGED <<fx, par, bus, saved, rt>>

TwinProcess(in) ==
    /\ calls < MaxCalls
    /\ \E r \in {ProcessBlockFloat(fx, st, par, Buffer(bus, in))} :
       \E t \in {ProcessBlockFloat(fx, twin.st, twin.par, Buffer(bus, in))} :
           /\ st' = r.st
           /\ twin' = [twin EXCEPT !.st = t.st, !.out = t.out]
           /\ last' = [op |-> "process", in |-> Buffer(bus, in), out |-> r.out]
    /\ phase' = "Processing"
    /\ calls' = calls + 1
    /\ UNCHANGED <<fx, par, bus, saved, rt>>

\* the same rate is set in both runs
TwinSetRate(v) ==
    /\ calls < MaxCalls
    /\ v /= par.rate
    /\ par' = [par EXCEPT !.rate = v]
    /\ twin' = [twin EXCEPT !.par.rate = v]
    /\ last' = [op |-> "setParameter", name |-> "rate"]
    /\ calls' = calls + 1
    /\ UNCHANGED <<fx, st, bus, phase, saved, rt>>

\* bypass is set in the second run only
TwinSetBypass(v) ==
    /\ calls < MaxCalls
    /\ v /= twin.par.bypass
    /\ twin' = [twin EXCEPT !.par.bypass = v]
    /\ last' = [op |-> "setParameter", name |-> "bypass"]
    /\ calls' = calls + 1
    /\ UNCHANGED <<fx, par, st, bus, phase, saved, rt>>

NextTwin ==
    \/ \E sr \in SampleRates(fx) : TwinPrepare(sr)
    \/ \* also blocks of one sample, so that the two runs are compared after
       \* every sample
       \E in \in Blocks \cup {<<v>> : v \in {-Q, 0, Q}} : TwinProcess(in)
    \/ \E v \in ParamGrid(SpecOf(fx, "rate")) : TwinSetRate(v)
    \/ \E v \in {0, 1} : TwinSetBypass(v)

SpecTwin == InitTwin /\ [][NextTwin]_vars

(***************************************************************************)
(* The audio thread inside processBlock, one parameter read at a time,     *)
(* with a control thread that sets parameters in between                   *)
(***************************************************************************)
\* parameter writes of the control thread while one block is processed
MaxChanges == 2

\* the effects whose processBlock runs processSampleInternal per sample
RTEffects == {"GainProcessor", "BigMuffFuzz", "AnalogDelay", "ChorusCE2", "PitchShifter"}

\* the parameter reads of one processSampleInternal call in program order:
\* the name of the read and the parameter it reads
ReadSites(e) ==
    CASE e = "GainProcessor" -> << <<"drive", "drive">>, <<"filter", "filter">>, <<"volume", "volume">> >>
      [] e = "BigMuffFuzz" -> << <<"bypass", "bypass">>, <<"sustain", "sustain">>, <<"tone1", "tone">>,
                                 <<"tone2", "tone">>, <<"tone3", "tone">>, <<"volume", "volume">> >>
      [] e = "AnalogDelay" -> << <<"delay", "delay">>, <<"regen", "regen">>, <<"mix", "mix">> >>
      [] e = "ChorusCE2" -> << <<"bypass", "bypass">>, <<"depth", "depth">> >>
      [] e = "PitchShifter" -> << <<"bypass", "bypass">>,
                                  <<"up2", "up2">>, <<"up2v", "up2">>,
                                  <<"up1", "up1">>, <<"up1v", "up1">>,
                                  <<"down1", "down1">>, <<"down1v", "down1">>,
                                  <<"down2", "down2">>, <<"down2v", "down2">>,
                                  <<"blend", "blend">> >>

ReadNames(e) == {ReadSites(e)[k][1] : k \in 1..Len(ReadSites(e))}

\* the parameter read by the read named f
ParamRead(e, f) == ReadSites(e)[CHOOSE k \in 1..Len(ReadSites(e)) : ReadSites(e)[k][1] = f][2]

\* whether the call reaches the read named f, given the members s and the
\* reads rd made so far
Reached(e, s, rd, f) ==
    /\ ("bypass" \in DOMAIN rd /\ f /= "bypass") => ~IsOn(rd["bypass"])
    /\ (e = "BigMuffFuzz" /\ f = "tone2")
          => Abs(BigMuffFuzz_center(rd["tone1"]) - s.lastTone) > 1
    /\ (e = "PitchShifter" /\ f = "up2v") => IsOn(rd["up2"])
    /\ (e = "PitchShifter" /\ f = "up1v") => IsOn(rd["up1"])
    /\ (e = "PitchShifter" /\ f = "down1v") => IsOn(rd["down1"])
    /\ (e = "PitchShifter" /\ f = "down2v") => IsOn(rd["down2"])

\* the first read from site k on that the call reaches; past the last site
\* when there is none
RECURSIVE NextSite(_, _, _, _)
NextSite(e, s, rd, k) ==
    IF k > Len(ReadSites(e)) THEN k
    ELSE IF Reached(e, s, rd, ReadSites(e)[k][1]) THEN k
    ELSE NextSite(e, s, rd, k + 1)

\* the reads made, with 0 for the reads the call did not reach
Fill(e, rd) == [f \in ReadNames(e) |-> IF f \in DOMAIN rd THEN rd[f] ELSE 0]

\* the sample rate the processor of this specification is prepared with
RTRate(e) == CHOOSE r \in SampleRates(e) : \A q \in SampleRates(e) : q <= r

\* the channels the sample loop of effect e runs over
NumCh(e, buf) == IF e = "PitchShifter" THEN 1 ELSE Len(buf)

InitRT ==
    /\ fx \in RTEffects
    /\ par = DefaultParams(fx)
    /\ bus = 1
    /\ st = PrepareToPlay(fx, Construct(fx), par, RTRate(fx), bus).st
    /\ phase = "Prepared"
    /\ saved = [valid |-> FALSE, bytes |-> << >>, par |-> par]
    /\ last = [op |-> "prepare"]
    /\ calls = 0
    /\ twin = [on |-> FALSE]
    /\ rt = [pc |-> "idle", changes |-> 0]

\* processBlock starts: the bypass check, then the loop is entered
RTBegin(in) ==
    /\ rt.pc = "idle"
    /\ LET buf == Buffer(bus, in)
       IN  rt' = [pc |-> IF IsOn(par.bypass) THEN "done" ELSE "sample",
                  changes |-> rt.changes, in |-> buf, buf |-> buf,
                  ch |-> 0, i |-> 0, site |-> 1, rd |-> << >>,
                  startBypass |-> par.bypass, touched |-> FALSE, late |-> {},
                  done |-> [valid |-> FALSE]]
    /\ st' = IF fx = "AnalogDelay" /\ ~IsOn(par.bypass)
             THEN AnalogDelay_resize(st, bus) ELSE st
    /\ phase' = "Processing"
    /\ UNCHANGED <<fx, par, bus, saved, last, calls, twin>>

\* the next parameter read of the current processSampleInternal call
RTRead ==
    /\ rt.pc = "sample"
    /\ LET k == NextSite(fx, st, rt.rd, rt.site)
       IN  /\ k <= Len(ReadSites(fx))
           /\ rt' = [rt EXCEPT !.site = k + 1,
                               !.rd = [f \in DOMAIN rt.rd \cup {ReadSites(fx)[k][1]} |->
                                          IF f = ReadSites(fx)[k][1]
                                          THEN par[ReadSites(fx)[k][2]]
                                          ELSE rt.rd[f]]]
    /\ UNCHANGED <<fx, par, st, bus, phase, saved, last, calls, twin>>

\* the rest of the processSampleInternal call, the write to data[i] and the
\* loop increments
RTCompute ==
    /\ rt.pc = "sample"
    /\ NextSite(fx, st, rt.rd, rt.site) > Len(ReadSites(fx))
    /\ \E rd \in {Fill(fx, rt.rd)} :
       \E r \in {ProcessSampleInternal(fx, st, rd, rt.buf[rt.ch + 1][rt.i + 1], rt.ch)} :
       \E v \in {IF fx = "PitchShifter" /\ ~IsOn(rd["bypass"])
                 THEN PitchShifter_voices(st, rd, rt.buf[rt.ch + 1][rt.i + 1])
                 ELSE [counted |-> {}, summed |-> {}]} :
       LET lastOfChannel == rt.i + 1 >= Len(rt.buf[rt.ch + 1])
           lastOfBlock == lastOfChannel /\ rt.ch + 1 >= NumCh(fx, rt.buf)
       IN  /\ st' = r.st
           /\ rt' = [rt EXCEPT !.buf = PutSample(rt.buf, rt.ch, rt.i, r.out),
                               !.pc = IF lastOfBlock THEN "end" ELSE "sample",
                               !.i = IF lastOfChannel THEN 0 ELSE rt.i + 1,
                               !.ch = IF lastOfChannel THEN rt.ch + 1 ELSE rt.ch,
                               !.site = 1,
                               !.rd = << >>,
                               !.startBypass = par.bypass,
                               !.touched = FALSE,
                               !.late = IF IsOn(rt.startBypass) /\ ~rt.touched
                                        THEN rt.late \cup {<<rt.ch, rt.i>>}
                                        ELSE rt.late,
                               !.done = [valid |-> TRUE, rd |-> rt.rd,
                                         counted |-> v.counted, summed |-> v.summed]]
    /\ UNCHANGED <<fx, par, bus, phase, saved, last, calls, twin>>

\* the code after the sample loop, and the return
RTEnd ==
    /\ rt.pc = "end"
    /\ st' = IF fx = "ChorusCE2" THEN ChorusCE2_updateLfoIncrement(st, par.rate) ELSE st
    /\ rt' = [rt EXCEPT !.pc = "done"]
    /\ UNCHANGED <<fx, par, bus, phase, saved, last, calls, twin>>

\* the control thread (editor, host automation) sets a parameter
CtlSetParameter(n, v) ==
    /\ rt.pc \in {"idle", "sample", "end"}
    /\ rt.changes < MaxChanges
    /\ v /= par[n]
    /\ par' = [par EXCEPT ![n] = v]
    /\ rt' = IF rt.pc = "idle" THEN [rt EXCEPT !.changes = rt.changes + 1]
             ELSE [rt EXCEPT !.changes = rt.changes + 1,
                             !.touched = rt.touched \/ n = "bypass"]
    /\ UNCHANGED <<fx, st, bus, phase, saved, last, calls, twin>>

NextRT ==
    \/ \E in \in Blocks : RTBegin(in)
    \/ RTRead
    \/ RTCompute
    \/ RTEnd
    \/ \E n \in ParamNames(fx) : \E v \in ParamGrid(SpecOf(fx, n)) : CtlSetParameter(n, v)

SpecRT == InitRT /\ [][NextRT]_vars

(***************************************************************************)
(* A prepared processor fed one sample per processBlock call: the delay    *)
(* lines, ring buffers and cursors over more than a lap of the buffer      *)
(***************************************************************************)
\* samples fed to the processor after prepareToPlay
MaxSamples == 18

\* parameter changes between the samples
MaxToggles == 2

\* the effects that keep a delay line or a ring buffer
LineEffects == {"AnalogDelay", "ChorusCE2", "PitchShifter", "Tuner"}

\* the write cursor among the members s of effect e (channel 0)
Cursor(e, s) ==
    CASE e = "AnalogDelay" -> s.writeIndex
      [] e = "ChorusCE2" -> s.writeIndex[1]
      [] e = "PitchShifter" -> s.writeIndex
      [] e = "Tuner" -> s.writePos

\* the buffer the write cursor points into (channel 0)
Line(e, s) ==
    CASE e = "AnalogDelay" -> s.delayBuffer
      [] e = "ChorusCE2" -> s.delayBuffer[1]
      [] e = "PitchShifter" -> s.buffer
      [] e = "Tuner" -> s.circularBuffer

\* the processor has a bypass parameter and it is on
Bypassed(p) == "bypass" \in DOMAIN p /\ IsOn(p.bypass)

\* what one processSampleInternal call computed on the way: the delay, the
\* loop iterations and the delayed tap of the two delays, the read positions
\* of the PitchShifter voices
Internals(e, s, p, in) ==
    IF Bypassed(p) \/ e = "Tuner" THEN [none |-> TRUE]
    ELSE IF e = "PitchShifter"
         THEN [readPos |-> PitchShifter_voices(s, Reads(e, p), in).readPos]
         ELSE [f \in {"delaySamples", "iterations", "delayed"} |->
                  ProcessSampleInternal(e, s, Reads(e, p), in, 0)[f]]

InitLine ==
    /\ fx \in LineEffects
    /\ par = DefaultParams(fx)
    /\ bus = 1
    /\ \E sr \in {r \in SampleRates(fx) : r > 0} :
           st = PrepareToPlay(fx, Construct(fx), par, sr, bus).st
    /\ phase = "Prepared"
    /\ saved = [valid |-> FALSE, bytes |-> << >>, par |-> par]
    /\ \E k \in {"ramp", "burst", "alt"} :
           last = [op |-> "prepare", wave |-> k, changes |-> 0, written |-> << >>]
    /\ calls = 0
    /\ twin = [on |-> FALSE]
    /\ rt = [pc |-> "off"]

\* processBlock on a mono block of one sample, the next one of the input
\* signal; written collects the values stored in the buffer since prepareToPlay
LineSample ==
    /\ calls < MaxSamples
    /\ \E in \in {Wave(last.wave, calls + 1)} :
       \E r \in {ProcessBlockFloat(fx, st, par, Buffer(1, <<in>>))} :
           /\ st' = r.st
           /\ last' = [op |-> "sample", wave |-> last.wave, changes |-> last.changes,
                       in |-> in, out |-> r.out[1][1], before |-> st, par |-> par,
                       written |-> IF Bypassed(par) THEN last.written
                                   ELSE Append(last.written, Line(fx, r.st)[Cursor(fx, st) + 1]),
                       internals |-> Internals(fx, st, par, in)]
    /\ phase' = "Processing"
    /\ calls' = calls + 1
    /\ UNCHANGED <<fx, par, bus, saved, twin, rt>>

\* the editor or the host sets a parameter between two blocks
LineSetParameter(n, v) ==
    /\ last.changes < MaxToggles
    /\ calls < MaxSamples
    /\ v /= par[n]
    /\ par' = [par EXCEPT ![n] = v]
    /\ last' = [last EXCEPT !.op = "setParameter", !.changes = last.changes + 1]
    /\ UNCHANGED <<fx, st, bus, phase, saved, calls, twin, rt>>

NextLine ==
    \/ LineSample
    \/ \E n \in ParamNames(fx) : \E v \in ParamGrid(SpecOf(fx, n)) : LineSetParameter(n, v)

SpecLine == InitLine /\ [][NextLine]_vars

(***************************************************************************)
(* SpecNote: ChromaticTuner::frequencyToNote on a frequency                *)
(***************************************************************************)
\* the frequencies go up in 5 Hz steps to 5 * FreqSteps Hz
FreqSteps == 120

\* frequencies in Hz (fixed point): 15 Hz to 600 Hz in 5 Hz steps, on to
\* 5050 Hz in 50 Hz steps, the ends of the accepted range and their
\* neighbours, and C4, A#4 and a frequency a quarter tone above A4
NoteFrequencies ==
    {5 * k * Q : k \in 3..FreqSteps} \cup {50 * k * Q : k \in 13..101}
        \cup {19990, 5000010, 261630, 466160, 452890, 452900}

InitNote ==
    /\ fx = "Tuner"
    /\ par \in ParamAssignments(fx)
    /\ bus = 1
    /\ st = Construct(fx)
    /\ phase = "Uninitialized"
    /\ saved = [valid |-> FALSE, bytes |-> << >>, par |-> par]
    /\ last = [op |-> "construct"]
    /\ calls = 0
    /\ twin = [on |-> FALSE]
    /\ rt = [pc |-> "off"]

\* detectPitch found a period: it stores the frequency and names the note
NoteOf(frequency) ==
    /\ st' = Tuner_frequencyToNote([st EXCEPT !.detectedFrequency = frequency], par, frequency)
    /\ last' = [op |-> "frequencyToNote", frequency |-> frequency, useflats |-> par.useflats]
    /\ UNCHANGED <<fx, par, bus, phase, saved, calls, twin, rt>>

NextNote == \E frequency \in NoteFrequencies : NoteOf(frequency)

SpecNote == InitNote /\ [][NextNote]_vars

(***************************************************************************)
(* SpecTuner: the analysis window of ChromaticTuner over blocks of any     *)
(* length                                                                  *)
(***************************************************************************)
\* bufferSize of the window, scaled down from 8192 so that, as at 44100 Hz,
\* the longest period searched (sampleRate / 60) is below half the window
WindowSize == 44

\* the tuner prepared at 1200 Hz (periods 1 to 20); the input is a ramp
\* (shape 0) or a pulse train with a period of shape samples
InitTuner ==
    /\ fx = "Tuner"
    /\ par = DefaultParams(fx)
    /\ bus = 1
    /\ st = Tuner_prepareToPlay([Tuner_Construct EXCEPT !.bufferSize = WindowSize],
                                par, 1200, bus).st
    /\ phase = "Prepared"
    /\ saved = [valid |-> FALSE, bytes |-> << >>, par |-> par]
    /\ \E shape \in {0, 2, 7, 19, 20, 21} :
           last = [op |-> "prepare", shape |-> shape, received |-> << >>]
    /\ calls = 0
    /\ twin = [on |-> FALSE]
    /\ rt = [pc |-> "off"]

\* processBlock on the next numSamples samples of the input
TunerBlock(numSamples) ==
    /\ calls < MaxCalls
    /\ LET sample(k) == IF last.shape = 0 THEN 10 * k
                         ELSE IF k % last.shape = 0 THEN Q ELSE Q \div 2
           block == [i \in 1..numSamples |-> sample(Len(last.received) + i)]
       IN  /\ st' = Tuner_processBlock(st, par, Buffer(1, block)).st
           /\ last' = [op |-> "block", shape |-> last.shape,
                       received |-> last.received \o block, before |-> st]
    /\ phase' = "Processing"
    /\ calls' = calls + 1
    /\ UNCHANGED <<fx, par, bus, saved, twin, rt>>

NextTuner == \E numSamples \in {1, 3, WindowSize \div 2, WindowSize, WindowSize + 6} : TunerBlock(numSamples)

SpecTuner == InitTuner /\ [][NextTuner]_vars

(***************************************************************************)
(* Properties of the host calls                                            *)
(***************************************************************************)
\* the samples of a block, over all channels
Samples(buf) == {buf[c][i] : c \in DOMAIN buf, i \in 1..MaxBlock}

\* the sizes of the containers among the members s of effect e
Sizes(e, s) ==
    CASE e = "GainProcessor" -> <<Len(s.lowpassState)>>
      [] e = "BigMuffFuzz" -> <<Len(s.lpState), Len(s.hpState), Len(s.midState)>>
      [] e = "AnalogDelay" -> <<Len(s.delayBuffer), Len(s.fbState)>>
      [] e = "ChorusCE2" -> <<[c \in DOMAIN s.delayBuffer |-> Len(s.delayBuffer[c])],
                              Len(s.writeIndex), Len(s.lfoPhase)>>
      [] e = "PitchShifter" -> <<Len(s.buffer)>>
      [] e = "Tuner" -> <<Len(s.circularBuffer)>>
      [] OTHER -> << >>

\* the sample rate member the later computations of effect e read
SampleRateUsed(e, s) == IF e = "GainBoost" THEN s.currentSampleRate ELSE s.sampleRate

\* C1: for every effect, every parameter vector in range and every input
\* with |x| <= 1, each sample a processBlock call writes back after a
\* prepareToPlay at a positive sample rate lies within [-1, 1]
C1_OutputBounded ==
    (last.op = "process" /\ SampleRateUsed(fx, st) > 0)
        => \A v \in Samples(last.out) : Abs(v) <= Q

\* a block with a full-scale sample has been processed
C1_Processed ==
    /\ last.op = "process"
    /\ \E v \in Samples(last.in) : Abs(v) = Q

\* C3: for GainProcessor, BigMuffFuzz, AnalogDelay, ChorusCE2, PitchShifter
\* and GainBoost, a block processed while bypass is true leaves every sample
\* of the block and every member of the processor unchanged
C3_BypassedBlockChangesNothing ==
    (last.op = "process" /\ fx \in ShortCircuit /\ IsOn(par.bypass))
        => (last.out = last.in /\ st = last.before)

\* a bypassed block with a non-zero sample has been processed by a
\* short-circuit effect whose members an active block would have changed
C3_BypassedBlock ==
    /\ last.op = "process"
    /\ fx \in ShortCircuit
    /\ IsOn(par.bypass)
    /\ \E v \in Samples(last.in) : v /= 0
    /\ ProcessBlockFloat(fx, st, [par EXCEPT !.bypass = 0], last.in).st /= st

\* C6: prepareToPlay with a sample rate <= 0 completes without an exception
\* and leaves 44100 as the sample rate the later computations use
C6_NonPositiveRateBecomesDefault ==
    (last.op = "prepare" /\ last.sampleRate <= 0)
        => (~last.threw /\ SampleRateUsed(fx, st) = 44100)

\* prepareToPlay has been called with a sample rate <= 0
C6_PreparedNonPositive ==
    last.op = "prepare" /\ last.sampleRate <= 0

\* C7: once prepareToPlay has run (at a positive sample rate), no
\* processBlock call creates a buffer or changes the size of one
C7_NoAllocationWhileProcessing ==
    (last.op = "process" /\ SampleRateUsed(fx, st) > 0)
        => (last.allocs = 0 /\ Sizes(fx, st) = Sizes(fx, last.before))

\* C8: the members right after prepareToPlay at a positive sample rate are
\* those of a newly constructed processor prepared with the same arguments,
\* whatever was processed before
C8_PrepareIsFullReset ==
    (last.op = "prepare" /\ last.sampleRate > 0) => st = last.fresh

(***************************************************************************)
(* Properties of saving and restoring                                      *)
(***************************************************************************)
\* the name of declared parameter i of effect e
NameOf(e, i) == ParamSpec(e)[i].name

\* the parameter values p are values setValueNotifyingHost can produce
Legal(e, p) ==
    \A n \in ParamNames(e) :
        SpecOf(e, n).kind = "float" => SnapToLegalValue(SpecOf(e, n), p[n]) = p[n]

\* C4: setStateInformation with the whole block written by
\* getStateInformation leaves every declared parameter at the (legal) value
\* it had when the block was written, whatever the parameters held in between
C4_RoundTripRestoresParameters ==
    (last.op = "setState" /\ last.k = Len(saved.bytes) /\ Legal(fx, saved.par))
        => par = saved.par

\* C5: setStateInformation with only the first k floats of a saved block
\* (k below the number of parameters) gives the first k parameters their
\* saved values and leaves every other parameter as it was before the call
C5_TruncatedStateKeepsTrailingParameters ==
    (last.op = "setState" /\ last.k < Len(ParamSpec(fx)))
        => \A i \in 1..Len(ParamSpec(fx)) :
              par[NameOf(fx, i)] = IF i <= last.k THEN saved.par[NameOf(fx, i)]
                                   ELSE last.before[NameOf(fx, i)]

(***************************************************************************)
(* Properties of the two Phase90 runs                                      *)
(***************************************************************************)
\* C2: two Phase90 runs from the same state with the same samples and the
\* same rate, whatever their bypass values, have the same members (LFO
\* phase, DC-blocker registers, allpass registers) after every call and
\* write back the same samples
C2_BypassDoesNotChangePhase90 ==
    twin.on => (twin.st = st /\ (last.op = "process" => twin.out = last.out))

\* both runs have processed a block that the phaser changed, with bypass
\* on in one run and off in the other
C2_RunsDifferInBypass ==
    /\ twin.on
    /\ last.op = "process"
    /\ twin.par.bypass /= par.bypass
    /\ last.out /= last.in
    /\ st /= Construct(fx)

(***************************************************************************)
(* Properties of the audio thread                                          *)
(***************************************************************************)
\* C9: in a completed processSampleInternal call all reads of one
\* parameter returned the same value, whatever the control thread did
\* meanwhile, and in PitchShifter the voices counted in activeCount are the
\* voices whose samples were summed
C9_OneValuePerParameterPerSample ==
    (rt.pc \in {"sample", "end", "done"} /\ rt.done.valid)
        => /\ \A f, g \in DOMAIN rt.done.rd :
                 ParamRead(fx, f) = ParamRead(fx, g) => rt.done.rd[f] = rt.done.rd[g]
           /\ rt.done.counted = rt.done.summed

\* a PitchShifter sample with a voice counted in activeCount but not summed
C9_CountedNotSummed ==
    /\ rt.pc \in {"sample", "end", "done"}
    /\ rt.done.valid
    /\ rt.done.counted /= rt.done.summed

\* C10: every sample of a block whose processSampleInternal call starts
\* after the control thread has set bypass to true is written back unchanged
C10_BypassTakesEffectWithinBlock ==
    rt.pc \in {"sample", "end", "done"}
        => \A pos \in rt.late :
              rt.buf[pos[1] + 1][pos[2] + 1] = rt.in[pos[1] + 1][pos[2] + 1]

\* bypass was set to true while a block was processed, and a sample of
\* that block was processed afterwards
C10_BypassSetMidBlock ==
    /\ rt.pc \in {"sample", "end", "done"}
    /\ rt.late /= {}

(***************************************************************************)
(* Properties of the filters and the delay lines                           *)
(***************************************************************************)
\* the effects with one-pole filters, a DC blocker or allpass stages
Filtered == {"GainProcessor", "BigMuffFuzz", "AnalogDelay", "PitchShifter", "Phase90"}

\* every filter register and every delay line slot of the members s is zero,
\* as prepareToPlay leaves them on a new processor
AtRest(e, s) ==
    CASE e = "GainProcessor" -> \A c \in DOMAIN s.lowpassState : s.lowpassState[c] = 0
      [] e = "BigMuffFuzz" ->
           \A c \in DOMAIN s.lpState : s.lpState[c] = 0 /\ s.hpState[c] = 0 /\ s.midState[c] = 0
      [] e = "AnalogDelay" ->
           /\ \A c \in DOMAIN s.fbState : s.fbState[c] = 0
           /\ \A i \in DOMAIN s.delayBuffer : s.delayBuffer[i] = 0
      [] e = "PitchShifter" ->
           /\ s.wetLpState = 0 /\ s.wetHpState = 0 /\ s.lastHpIn = 0
           /\ \A i \in DOMAIN s.buffer : s.buffer[i] = 0
      [] e = "Phase90" ->
           /\ s.hpPrevIn = <<0, 0>> /\ s.hpPrevOut = <<0, 0>>
           /\ \A c \in 1..2 : \A k \in 1..4 : s.allpassStates[c][k] = AllpassState
      [] OTHER -> TRUE

\* C11: from members with every filter register at zero (the state right
\* after prepareToPlay), a block of zero samples leaves every one-pole
\* register, DC-blocker register and allpass register at zero and writes
\* back zero samples only, for every parameter value and coefficient
C11_SilenceInSilenceOut ==
    (last.op = "process" /\ fx \in Filtered /\ AtRest(fx, last.before)
        /\ \A v \in Samples(last.in) : v = 0)
        => (AtRest(fx, st) /\ \A v \in Samples(last.out) : v = 0)

\* a second block of silence in a row has gone through the filters of a
\* processor that is not bypassed
C11_SilenceProcessed ==
    /\ last.op = "process"
    /\ fx \in Filtered
    /\ ~IsOn(par.bypass)
    /\ phase = "Processing"
    /\ calls = MaxCalls
    /\ AtRest(fx, last.before)
    /\ last.before /= PrepareToPlay(fx, Construct(fx), par, SampleRateUsed(fx, st), bus).st
    /\ \A v \in Samples(last.in) : v = 0

C14_ReadPositionLoopRunsAtMostOnce ==
    (last.op = "sample" /\ fx \in {"AnalogDelay", "ChorusCE2"} /\ ~Bypassed(last.par))
        => last.internals.iterations <= 1

\* the loop ran once, at the longest delay the parameters give
C14_LoopRanOnce ==
    /\ last.op = "sample"
    /\ fx \in {"AnalogDelay", "ChorusCE2"}
    /\ ~Bypassed(last.par)
    /\ last.internals.iterations = 1
    /\ (fx = "AnalogDelay" => last.par.delay = Q)
    /\ (fx = "ChorusCE2" => last.par.depth = Q)

\* C16: every PitchShifter voice that reads does so at a position at least
\* readOffset samples behind the write cursor in circular distance, for all
\* four step sizes and any sequence of voice toggles
C16_VoicesStayBehindWriteCursor ==
    (last.op = "sample" /\ fx = "PitchShifter" /\ ~Bypassed(last.par))
        => \A v \in DOMAIN last.internals.readPos :
              last.internals.readPos[v] >= 0
                  => (st.writeIndex * Q - last.internals.readPos[v]) % (st.bufferLen * Q)
                         >= st.readOffset * Q

\* a PitchShifter voice has read a sample
C16_VoiceRead ==
    /\ last.op = "sample"
    /\ fx = "PitchShifter"
    /\ ~Bypassed(last.par)
    /\ \E v \in DOMAIN last.internals.readPos : last.internals.readPos[v] >= 0

\* C17: in AnalogDelay, ChorusCE2, PitchShifter and the tuner every sample
\* handed to processSampleInternal after prepareToPlay (a bypassed
\* processBlock returns before it hands any sample on) moves the write
\* cursor by exactly 1 modulo the buffer length, and the write cursor is
\* always in [0, buffer length)
C17_WriteCursorAdvancesByOne ==
    /\ Cursor(fx, st) \in 0..(Len(Line(fx, st)) - 1)
    /\ (last.op = "sample" /\ ~Bypassed(last.par))
          => Cursor(fx, st) = (Cursor(fx, last.before) + 1) % Len(Line(fx, st))

\* the write cursor has gone from the last slot of the buffer back to 0
C17_CursorWrapped ==
    /\ last.op = "sample"
    /\ ~Bypassed(last.par)
    /\ Cursor(fx, last.before) = Len(Line(fx, st)) - 1
    /\ Cursor(fx, st) = 0

\* C18: a PitchShifter voice whose position differs from writeIndex -
\* readOffset (wrapped into the buffer) by more than half the buffer length,
\* ahead or behind, reads at exactly that position; a voice within half the
\* buffer length reads at its own position
C18_VoiceResynchronised ==
    (last.op = "sample" /\ fx = "PitchShifter" /\ ~Bypassed(last.par))
        => \A v \in DOMAIN last.internals.readPos :
              LET pos == last.before.voicePos[v]
                  behindPos == ((st.writeIndex - st.readOffset) % st.bufferLen) * Q
              IN  last.internals.readPos[v] >= 0
                      => last.internals.readPos[v]
                             = IF 2 * Abs(pos - behindPos) > st.bufferLen * Q THEN behindPos
                               ELSE pos

\* a voice more than half the buffer length ahead of writeIndex - readOffset
\* was set back before it read
C18_VoiceSetBack ==
    /\ last.op = "sample"
    /\ fx = "PitchShifter"
    /\ ~Bypassed(last.par)
    /\ \E v \in DOMAIN last.internals.readPos :
           /\ last.internals.readPos[v] >= 0
           /\ 2 * (last.before.voicePos[v]
                       - ((st.writeIndex - st.readOffset) % st.bufferLen) * Q)
                  > st.bufferLen * Q
           /\ last.internals.readPos[v] /= last.before.voicePos[v]

C15_NoteIsNearestMidiNote ==
    (last.op = "frequencyToNote" /\ last.frequency >= 20 * Q /\ last.frequency <= 5000 * Q) =>
        LET f == last.frequency
            midiNote == 69 * Q + 12 * Log2Q(f \div 100, 4400)
            sharps == <<"C", "C#", "D", "D#", "E", "F", "F#", "G", "G#", "A", "A#", "B">>
            flats == <<"C", "Db", "D", "Eb", "E", "F", "Gb", "G", "Ab", "A", "Bb", "B">>
            spelling == IF last.useflats /= 0 THEN flats ELSE sharps
        IN  /\ \E n \in 0..127 :
                  /\ 2 * Abs(midiNote - n * Q) <= Q
                  /\ st.detectedNote = <<spelling[(n % 12) + 1], (n \div 12) - 1>>
                  /\ st.detectedCents = 100 * (midiNote - n * Q)
            /\ st.detectedCents >= -50 * Q /\ st.detectedCents <= 50 * Q
            /\ (f = 440 * Q => st.detectedNote = <<"A", 4>> /\ st.detectedCents = 0)
            /\ (f = 220 * Q => st.detectedNote = <<"A", 3>> /\ st.detectedCents = 0)
            /\ (f = 465 * Q => st.detectedNote = <<spelling[11], 4>>)

\* with useFlats on, 465 Hz was named Bb4
C15_FlatNamed ==
    /\ last.op = "frequencyToNote"
    /\ last.frequency = 465 * Q
    /\ last.useflats /= 0
    /\ st.detectedNote = <<"Bb", 4>>


(***************************************************************************)
(* Properties of the filter coefficients                                   *)
(***************************************************************************)
\* C19: in GainProcessor, BigMuffFuzz and AnalogDelay a block of at least one
\* sample processed without bypass leaves the cached cutoff and the smoothing
\* coefficients as they were when the target cutoff of the parameters is
\* within 1 Hz of the cached cutoff, and sets the cached cutoff to the target
\* and the coefficients to those of the target otherwise; either way the
\* cached cutoff is within 1 Hz of the target after the block
C19_CoefficientsFollowTheTargetCutoff ==
    LET target == CASE fx = "GainProcessor" -> GeoMap(475, 32000, par.filter)
                    [] fx = "BigMuffFuzz" -> GeoMap(250, 3500, par.tone)
                    [] OTHER -> (6000 * (Q - MulQ(par.regen, 330)) + 800 * MulQ(par.regen, 330)) \div Q
        cached(s) == CASE fx = "GainProcessor" -> s.lastCutoff
                       [] fx = "BigMuffFuzz" -> s.lastTone
                       [] OTHER -> s.lastFbCutoff
        alphas(s) == CASE fx = "GainProcessor" -> <<s.lpAlpha>>
                       [] fx = "BigMuffFuzz" -> <<s.lpAlpha, s.hpAlpha>>
                       [] OTHER -> <<s.fbAlpha>>
        alpha(fc) == Clamp(0, Q, OnePoleAlphaRaw(fc, st.sampleRate))
        fresh == CASE fx = "GainProcessor" -> <<alpha(target)>>
                   [] fx = "BigMuffFuzz" -> <<alpha((target * 45) \div 100), alpha((target * 9) \div 10)>>
                   [] OTHER -> <<alpha(target)>>
    IN  (last.op = "process" /\ fx \in {"GainProcessor", "BigMuffFuzz", "AnalogDelay"}
            /\ ~IsOn(par.bypass) /\ Samples(last.in) /= {})
            => /\ Abs(target - cached(st)) <= 1
               /\ IF Abs(target - cached(last.before)) <= 1
                  THEN cached(st) = cached(last.before) /\ alphas(st) = alphas(last.before)
                  ELSE cached(st) = target /\ alphas(st) = fresh

\* a block has moved the cached cutoff of a prepared processor to the cutoff
\* of a parameter value set after prepareToPlay, and changed a coefficient
C19_CutoffRecomputed ==
    /\ last.op = "process"
    /\ fx \in {"GainProcessor", "BigMuffFuzz", "AnalogDelay"}
    /\ ~IsOn(par.bypass)
    /\ Samples(last.in) /= {}
    /\ LET moved(s, t) == CASE fx = "GainProcessor" -> s.lastCutoff /= t.lastCutoff /\ s.lpAlpha /= t.lpAlpha
                             [] fx = "BigMuffFuzz" -> s.lastTone /= t.lastTone /\ s.hpAlpha /= t.hpAlpha
                             [] OTHER -> s.lastFbCutoff /= t.lastFbCutoff /\ s.fbAlpha /= t.fbAlpha
       IN  moved(last.before, st)


\* C20: in every state, after construction, prepareToPlay at any sample rate,
\* parameter changes, restored states and processed blocks, each one-pole
\* coefficient (lpAlpha of GainProcessor, lpAlpha and hpAlpha of
\* BigMuffFuzz, fbAlpha of AnalogDelay, lpfAlpha and hpfAlpha of
\* PitchShifter) lies within [0, 1]
C20_CoefficientsWithinUnitInterval ==
    LET alphas == CASE fx = "GainProcessor" -> {st.lpAlpha}
                    [] fx = "BigMuffFuzz" -> {st.lpAlpha, st.hpAlpha}
                    [] fx = "AnalogDelay" -> {st.fbAlpha}
                    [] fx = "PitchShifter" -> {st.lpfAlpha, st.hpfAlpha}
                    [] OTHER -> {}
    IN  \A a \in alphas : 0 <= a /\ a <= Q

\* a block has been processed with a coefficient that the clamp brought up
\* to 0 (negative sample rate) or that stands at 1 (sample rate 0, or a
\* cutoff far above half the sample rate)
C20_CoefficientAtTheClamp ==
    /\ last.op = "process"
    /\ Samples(last.in) /= {0}
    /\ \/ fx = "GainProcessor" /\ st.sampleRate < 0 /\ st.lpAlpha = 0
              /\ OnePoleAlphaRaw(st.lastCutoff, st.sampleRate) < 0
       \/ fx = "BigMuffFuzz" /\ st.sampleRate = 0 /\ st.hpAlpha = Q
       \/ fx = "AnalogDelay" /\ st.sampleRate > 0 /\ 2 * st.lastFbCutoff >= st.sampleRate
              /\ st.fbAlpha = Q


(***************************************************************************)
(* Properties of the clipping stages                                       *)
(***************************************************************************)
\* C21: the soft clipper (softDiodeClip of BigMuffFuzz on the boosted input
\* with threshold 0.75 and knee 0.20, diodeClamp of GainProcessor on the
\* op-amp output with threshold 0.6 and knee 0.2) returns v unchanged when
\* |v| <= threshold - knee and otherwise a value with the sign of v whose
\* magnitude is at most threshold + knee * c, here with c = 10, however
\* large |v| is
C21_SoftClipIsBounded ==
    (last.op = "process" /\ fx \in {"BigMuffFuzz", "GainProcessor"} /\ ~IsOn(par.bypass))
        => \A in \in Samples(last.in) :
              LET threshold == IF fx = "BigMuffFuzz" THEN 750 ELSE 600
                  knee == 200
                  v == IF fx = "BigMuffFuzz"
                       THEN MulQ(in, DbToGain(56 * par.sustain - 10 * Q))
                       ELSE Tanh(2 * MulQ(in, DbToGain(36 * par.drive - 6 * Q)))
                  out == IF fx = "BigMuffFuzz" THEN BigMuffFuzz_softDiodeClip(v, threshold, knee)
                         ELSE GainProcessor_diodeClamp(v)
              IN  IF Abs(v) <= threshold - knee THEN out = v
                  ELSE /\ Sgn(out) = Sgn(v)
                       /\ Abs(out) <= threshold + 10 * knee

\* a block with a sample that the boost or the op-amp stage brought above
\* threshold - knee has gone through the clipper
C21_Clipped ==
    /\ last.op = "process"
    /\ fx \in {"BigMuffFuzz", "GainProcessor"}
    /\ ~IsOn(par.bypass)
    /\ \E in \in Samples(last.in) :
           IF fx = "BigMuffFuzz"
           THEN Abs(MulQ(in, DbToGain(56 * par.sustain - 10 * Q))) > 550
           ELSE Abs(Tanh(2 * MulQ(in, DbToGain(36 * par.drive - 6 * Q)))) > 400


(***************************************************************************)
(* Properties of the tuner's window                                        *)
(***************************************************************************)
\* C22: when detectPitch finds a pitch, the period it chose is a lag of the
\* closed range [minPeriod, maxPeriod], minPeriod = floor(fs / 1200) and
\* maxPeriod = floor(fs / 60), and no lag of that closed range has a larger
\* autocorrelation, the sum over i < bufferSize / 2 of x[i] * x[i + lag]
C22_ChosenPeriodMaximisesCorrelation ==
    (last.op = "block" /\ st.detectedFrequency > 0)
        => LET n == st.bufferSize
               x(i) == st.circularBuffer[((st.writePos + i) % n) + 1]
               corr(lag) == SumSeq([i \in 1..(n \div 2) |-> x(i - 1) * x(i - 1 + lag)], n \div 2)
               minPeriod == st.sampleRate \div 1200
               maxPeriod == st.sampleRate \div 60
               chosen == CHOOSE lag \in 1..n : (st.sampleRate * Q) \div lag = st.detectedFrequency
           IN  /\ chosen \in minPeriod..maxPeriod
               /\ \A lag \in minPeriod..maxPeriod : corr(chosen) >= corr(lag)

\* a pitch was found in a window full of a signal whose period is maxPeriod
C22_PeriodAtTheEndOfTheRange ==
    /\ last.op = "block"
    /\ st.detectedFrequency > 0
    /\ last.shape = st.sampleRate \div 60
    /\ Len(last.received) >= st.bufferSize


\* C23: at every detectPitch call the linearized window, entry i being
\* circularBuffer[(writePos + i) % bufferSize], is in arrival order: entry i
\* holds the sample received bufferSize - i samples before the end of the
\* latest block, 0 if fewer samples were received since prepareToPlay, for
\* any sequence of block sizes, blocks longer than the buffer included
C23_WindowInArrivalOrder ==
    (last.op = "block")
        => LET n == st.bufferSize
               received == Len(last.received)
           IN  \A i \in 0..(n - 1) :
                  st.circularBuffer[((st.writePos + i) % n) + 1]
                      = IF received - (n - i) >= 0 THEN last.received[received - (n - i) + 1]
                        ELSE 0

\* a first block longer than the window has gone in, of a ramp, and left
\* the write position inside the buffer
C23_BlockLongerThanWindow ==
    /\ last.op = "block"
    /\ calls = 1
    /\ last.shape = 0
    /\ Len(last.received) > st.bufferSize
    /\ st.writePos /= 0


C25_AllpassStagesAreChained ==
    (last.op = "process" /\ fx = "Phase90")
        => \A c \in DOMAIN last.out :
              /\ st.allpassStates[c][1].x1 = st.hpPrevOut[c]
              /\ \A k \in 2..4 : st.allpassStates[c][k].x1 = st.allpassStates[c][k - 1].y1
              /\ last.out[c][MaxBlock] = st.allpassStates[c][4].y1

\* a stereo block has left four different non-zero outputs in the stages of
\* its second channel
C25_SignalInEveryStage ==
    /\ last.op = "process"
    /\ fx = "Phase90"
    /\ bus = 2
    /\ \A k \in 1..4 : st.allpassStates[2][k].y1 /= 0
    /\ \A k \in 2..4 : st.allpassStates[2][k].y1 /= st.allpassStates[2][k - 1].y1


C27_LfoPhaseAdvancesByRate ==
    (last.op = "process" /\ fx \in {"Phase90", "ChorusCE2"}
        /\ (fx = "ChorusCE2" => ~IsOn(par.bypass)))
        => LET fs == IF st.sampleRate > 0 THEN st.sampleRate ELSE 44100
               advanced(ph) == (ph + MaxBlock * LfoIncrement(par.rate, fs)) % TwoPiU
           IN  IF fx = "Phase90"
               THEN /\ st.lfoPhase = advanced(last.before.lfoPhase)
                    /\ 0 <= st.lfoPhase /\ st.lfoPhase < TwoPiU
               ELSE \A c \in DOMAIN st.lfoPhase :
                       /\ st.lfoPhase[c] = advanced(last.before.lfoPhase[c])
                       /\ 0 <= st.lfoPhase[c] /\ st.lfoPhase[c] < TwoPiU

\* ChorusCE2 has processed a block after the rate parameter was changed
C27_BlockAfterRateChange ==
    /\ last.op = "process"
    /\ fx = "ChorusCE2"
    /\ ~IsOn(par.bypass)
    /\ st.sampleRate > 0
    /\ st.lfoPhase /= << >>
    /\ last.before.lfoInc /= LfoIncrement(par.rate, st.sampleRate)

(***************************************************************************)
(* Properties of processing before prepareToPlay                           *)
(***************************************************************************)
\* C28: processBlock on a freshly constructed AnalogDelay, ChorusCE2 or
\* PitchShifter returns, and every container access of the call uses an
\* index below the container's current size.
C28_UnpreparedProcessIsSafe ==
    last.op = "processUnprepared"
        => /\ last.returned
           /\ \A k \in DOMAIN last.accesses :
                  /\ 0 <= last.accesses[k].index
                  /\ last.accesses[k].index < last.accesses[k].size

\* a block was handed to an unprepared delay effect whose bypass is off
C28_ActiveBlockBeforePrepare ==
    /\ last.op = "processUnprepared"
    /\ ~IsOn(par.bypass)

(***************************************************************************)
(* Properties of the per-channel members                                   *)
(***************************************************************************)
\* C29: every channel index a processBlock call iterates over (0 up to the
\* channel count of its buffer) is below the size prepareToPlay gave each
\* per-channel container of ChorusCE2, GainProcessor and BigMuffFuzz, for
\* every bus layout the processor was prepared with; processBlock keeps
\* those sizes.
C29_ChannelIndexBelowPreparedSize ==
    LET sizes(s) ==
            CASE fx = "ChorusCE2" -> {Len(s.delayBuffer), Len(s.writeIndex), Len(s.lfoPhase)}
              [] fx = "GainProcessor" -> {Len(s.lowpassState)}
              [] fx = "BigMuffFuzz" -> {Len(s.lpState), Len(s.hpState), Len(s.midState)}
        below(numCh, s) == \A ch \in 0..(numCh - 1) : \A size \in sizes(s) : ch < size
    IN  fx \in {"ChorusCE2", "GainProcessor", "BigMuffFuzz"}
            => /\ phase \in {"Prepared", "Processing"} => below(bus, st)
               /\ last.op = "process"
                      => below(Len(last.in), last.before) /\ sizes(st) = sizes(last.before)

\* a chorus prepared on a stereo bus has processed the second channel of a
\* stereo block
C29_SecondChannelProcessed ==
    /\ last.op = "process"
    /\ fx = "ChorusCE2"
    /\ Len(last.in) = 2
    /\ st.writeIndex[2] /= last.before.writeIndex[2]

(***************************************************************************)
(* Properties of the booster's gain                                        *)
(***************************************************************************)
\* C30: the target gain GainBoost sets in a processed block is
\* min(1 + (56000 + 500000 k) / 2700, 20) for the knob position k; over the
\* knob's range this gain lies in [1, 20], never decreases with k, and is
\* strictly greater at k = 1 than at k = 0.
C30_GainFollowsTheKnob ==
    (last.op = "process" /\ fx = "GainBoost" /\ ~IsOn(par.bypass))
        => LET gain(k) == GainBoost_calculateCircuitGain(k)
               formula(k) == Min(Q + ((56000 * Q + 500000 * k) \div 2700), 20 * Q)
           IN  /\ st.smoothedGain.target = formula(par.gain)
               /\ \A k \in 0..Q : gain(k) = formula(k) /\ Q <= gain(k) /\ gain(k) <= 20 * Q
               /\ \A k \in 1..Q : gain(k - 1) <= gain(k)
               /\ gain(Q) > gain(0)

\* a block was processed with the gain knob fully up
C30_KnobFullyUp ==
    /\ last.op = "process"
    /\ fx = "GainBoost"
    /\ ~IsOn(par.bypass)
    /\ par.gain = Q
    /\ st.smoothedGain.target = 20 * Q

=============================================================================
